---- MODULE Spec2Model ----
(***************************************************************************)
(* Model of the qb-data-loader import pipeline: the Job/JobRow store, the  *)
(* HTTP handlers of app/api/imports.py (upload, start, dry-run) and the    *)
(* Celery task import_valid_rows_task of app/tasks/import_tasks.py.        *)
(* The token refresh of app/core/qbo.py and the ConnectionManager of       *)
(* app/core/websocket.py are modelled beside it, each with its own state.  *)
(*                                                                         *)
(* One job is modelled (jobs do not share rows or metadata).  A CSV text   *)
(* is represented by the list of records csv.DictReader yields for it.     *)
(* One Celery worker slot executes the queued tasks one after the other;   *)
(* the HTTP process interleaves with it at every database access.          *)
(***************************************************************************)
EXTENDS Integers, Sequences, FiniteSets, TLC

\* ------------------------------------------------------------------ bounds
\* Longest CSV (data rows) of a job whose task runs with no HTTP request
\* beside it (SpecWorker).
MaxRows == 2
\* Longest CSV (data rows) an upload carries while requests interleave (Spec).
MaxUploadRows == 1
\* Largest CSV of the all-valid family used for multi-batch runs.
MaxBigRows == 35
\* start-import requests handled for the job.
MaxStarts == 2
\* dry-run requests handled for the job.
MaxDryRuns == 1
\* A batch of at most this many rows gets every response shape.
SmallBatch == 2
\* Failures of the token endpoint while HTTP requests interleave (Spec).
MaxRefreshFailures == 1
\* A dry run with at most this many candidate names gets every set of
\* existing customers.
SmallNames == 2
\* Longest CSV (data rows) of the dry runs that get every CSV.
MaxDryRows == 3
\* Rows beyond QUERY_LIMIT in the longest CSV of distinct names.
ExtraNames == 1
\* start-import and dry-run requests together while the task runs beside
\* them with a token endpoint that answers (SpecHttp).
MaxRequests == 2
\* grants of the token endpoint explored (SpecToken).
MaxTokens == 3
\* calls of manager.broadcast explored (SpecManager).
MaxMessages == 2
\* Longest list of edited rows a start request carries (SpecStart).
MaxEditRows == 2
\* Most logins, hence OAuth states issued (SpecOAuth).
MaxLogins == 2

\* -------------------------------------------------------- program constants
BATCH_SIZE == 30
max_retries == 5
VALIDATE_CHUNK == 50
QUERY_LIMIT == 500

\* ------------------------------------------------------------------- data
Headers == {"Name", "Email"}

\* reader.fieldnames of the CSVs of the model.
HeaderList == <<"Name", "Email">>

ValidEmails == {"good@x.com"}

RowOk == [Name |-> "Acme Inc", Email |-> "good@x.com"]
RowBadEmail == [Name |-> "Acme Inc", Email |-> "bad-email"]
RowValues == {RowOk, RowBadEmail}

\* Further rows for the dry runs: the same name with surrounding blanks,
\* another name.
RowAcmePadded == [Name |-> " Acme Inc ", Email |-> "good@x.com"]
RowBeta == [Name |-> "Beta LLC", Email |-> "good@x.com"]
DryRowValues == RowValues \cup {RowAcmePadded, RowBeta}

MapName == ("Name" :> "DisplayName")
MapNameEmail == ("Name" :> "DisplayName") @@ ("Email" :> "PrimaryEmailAddr.Address")
MapEmailOnly == ("Email" :> "PrimaryEmailAddr.Address")
MapEmpty == [h \in {} |-> ""]
\* A mapping with a target that normalize_to_canonical has no branch for.
MapNameCustom == ("Name" :> "DisplayName") @@ ("Email" :> "CustomField")

Mappings == {MapName, MapNameEmail, MapEmailOnly, MapEmpty}

\* str.strip() on the strings the model uses.
Strip(s) ==
    CASE s = " " -> ""
      [] s = " Acme Inc " -> "Acme Inc"
      [] OTHER -> s

SeqsUpTo(S, n) == UNION {[1..k -> S] : k \in 1..n}

Min(a, b) == IF a < b THEN a ELSE b

\* The CSVs of the specifications: every CSV of up to MaxRows (MaxUploadRows)
\* rows, and long CSVs whose every seventh row has an invalid email.
SmallCsvs == SeqsUpTo(RowValues, MaxRows)
UploadCsvs == SeqsUpTo(RowValues, MaxUploadRows)
BigCsv(n) == [k \in 1..n |-> IF k % 7 = 0 THEN RowBadEmail ELSE RowOk]
BigSizes == ((BATCH_SIZE - 1)..MaxBigRows) \cup {2 * BATCH_SIZE + 1}
BigCsvs == {BigCsv(n) : n \in BigSizes}

\* The CSVs of the dry runs: every CSV of up to MaxDryRows rows, and CSVs of
\* more than QUERY_LIMIT rows with a different name in every row.
DryCsvs == SeqsUpTo(DryRowValues, MaxDryRows)
ManyCsv(n) == [k \in 1..n |-> [Name |-> ToString(k), Email |-> "good@x.com"]]
ManyCsvs == {ManyCsv(QUERY_LIMIT + ExtraNames)}

\* The Id the external system holds for a customer name.
QboId(name) ==
    CASE name = "Acme Inc" -> 58
      [] name = "Beta LLC" -> 59
      [] OTHER -> 60

\* An uploaded file: whether its bytes decode as UTF-8, and what
\* csv.DictReader yields for the text (fieldnames, data rows).
CsvFile(csv) == [decodable |-> TRUE, headers |-> HeaderList, rows |-> csv]
Undecodable == [decodable |-> FALSE, headers |-> <<>>, rows |-> <<>>]
EmptyFile == [decodable |-> TRUE, headers |-> <<>>, rows |-> <<>>]
HeaderOnly == [decodable |-> TRUE, headers |-> HeaderList, rows |-> <<>>]
UploadFiles == {Undecodable, EmptyFile, HeaderOnly} \cup {CsvFile(csv) : csv \in UploadCsvs}
ObjectTypes == {"customer", "vendor"}

\* ------------------------------------------------- normalizer and validator
\* Email(Address=value): pydantic's EmailStr and strict_email_validation.
EmailOk(v) == v \in ValidEmails

\* normalize_to_canonical: the canonical fields the mapped, non-empty cells
\* give; Email(Address=...) raises on an invalid address.
normalize_to_canonical(mapping, row) ==
    LET used == {h \in DOMAIN mapping : Strip(row[h]) # ""}
        fields == {mapping[h] : h \in used}
        raises == \E h \in used : /\ mapping[h] = "PrimaryEmailAddr.Address"
                                  /\ ~EmailOk(Strip(row[h]))
        valueOf(f) == Strip(row[CHOOSE h \in used : mapping[h] = f])
    IN  [raised |-> raises,
         data |-> [f \in fields |-> valueOf(f)]]

\* The mapping targets of the model that are fields of CustomerCanonical.
ModelFields == {"DisplayName", "PrimaryEmailAddr.Address"}

\* CustomerCanonical(**model_input).to_qbo_payload(): DisplayName is
\* required; the model keeps the fields it declares (a pydantic BaseModel
\* ignores any other keyword) and the payload is built from the model's dump.
CustomerCanonical(model_input) ==
    LET payload == [f \in DOMAIN model_input \cap ModelFields |-> model_input[f]]
    IN  IF "DisplayName" \in DOMAIN model_input
        THEN [raised |-> FALSE, payload |-> payload]
        ELSE [raised |-> TRUE, payload |-> payload]

\* Lines 165-167: the payload of a row that validates.
to_qbo_payload(mapping, raw_data) ==
    CustomerCanonical(normalize_to_canonical(mapping, raw_data).data).payload

\* The try block of the validation loop for one row: the row's new status.
ValidateRow(mapping, raw_data) ==
    LET n == normalize_to_canonical(mapping, raw_data)
    IN  IF n.raised THEN "error"
        ELSE IF CustomerCanonical(n.data).raised THEN "error" ELSE "valid"

\* ------------------------------------------------------------------ state
VARIABLES
    jobStatus,      \* Job.status in the database ("none": no job yet)
    jobMeta,        \* Job.meta in the database
    jobRows,        \* the JobRow table of the job; a row's id is its index
    celeryQueue,    \* tasks waiting for the worker: [csv_content, retries]
    wpc,            \* the worker's position in import_valid_rows_task
    wlast,          \* how the worker's last task execution ended
    wjob,           \* the worker's in-memory Job (status, meta), loaded once
    wtask,          \* the task being executed
    vidx,           \* rows of the validation loop already handled
    valid_count,    \* local valid_count of run_import
    valid_rows,     \* local valid_rows of run_import (row ids)
    i,              \* start index of the next batch in valid_rows
    success_count,  \* local success_count of run_import
    requests,       \* the batch requests posted in this run (row ids each)
    lastResp,       \* the provider's answer to the last batch request
    dpc,            \* the dry-run request in flight ("idle" | "remote")
    djob,           \* the dry-run handler's in-memory Job
    dreq,           \* the dry-run handler's mapping and rows
    dresp,          \* how the duplicates query of the last dry run ended
    httpStatus,     \* status code of the last HTTP response
    nStarts,        \* start-import requests handled so far
    nDryRuns,       \* dry-run requests handled so far
    nRefreshFailed, \* failures of the token endpoint so far
    lastBroadcast,  \* the last message the worker passed to manager.broadcast
    active_connections, \* manager.active_connections: job_id -> connections
    closed,         \* the connections whose client has gone (a send fails)
    received,       \* the messages each connection was sent
    broadcastCall,  \* the call of manager.broadcast in progress
    qboUser,        \* the tokens of the stored User row
    refreshCalls,   \* the calls of refresh_token_if_needed in progress
    tokensIssued,   \* tokens the token endpoint has issued so far
    tokensExpired,  \* the tokens up to this one have expired
    created,        \* the JobRows (ids) for which the provider created a customer
    startCalls,     \* the start-import requests handled side by side
    oauthStates,    \* the qbo_state:<state> keys Redis holds
    callbackCalls   \* the OAuth callback requests

vars == <<jobStatus, jobMeta, jobRows, celeryQueue, wpc, wlast, wjob, wtask,
          vidx, valid_count, valid_rows, i, success_count, requests, lastResp,
          dpc, djob, dreq, dresp, httpStatus, nStarts, nDryRuns, nRefreshFailed,
          lastBroadcast, active_connections, closed, received, broadcastCall,
          qboUser, refreshCalls, tokensIssued, tokensExpired,
          created, startCalls, oauthStates, callbackCalls>>

\* The connection manager of the API process.
managerVars == <<active_connections, closed, received, broadcastCall>>

\* The stored tokens, the refreshes in progress and the token endpoint.
tokenVars == <<qboUser, refreshCalls, tokensIssued, tokensExpired>>

\* The OAuth login: the states kept in Redis and the callbacks.
oauthVars == <<oauthStates, callbackCalls>>

\* What the handlers of imports.py and the task leave alone, but for the
\* customers a batch request creates.
otherSideVars == <<managerVars, tokenVars, startCalls, oauthVars>>

sideVars == <<otherSideVars, created>>

workerVars == <<wpc, wlast, wjob, wtask, vidx, valid_count, valid_rows, i,
                success_count, requests, lastResp, lastBroadcast>>

dryVars == <<dpc, djob, dreq, dresp, nDryRuns>>

\* Values standing for a key that job.meta does not hold.
NoCount == 0 - 1
NoCsv == <<>>
NoDryRun ==
    [summary |-> [total_rows |-> NoCount, will_succeed |-> NoCount,
                  will_fail |-> NoCount, warnings |-> NoCount, issues |-> <<>>],
     mapping_used |-> MapEmpty,
     row_details |-> <<>>]

NoMeta ==
    [headers |-> <<>>, csv_content |-> NoCsv, mapping |-> MapEmpty,
     last_dry_run |-> NoDryRun,
     total_rows |-> NoCount, valid_count |-> NoCount, success_count |-> NoCount,
     failed_count |-> NoCount, error |-> ""]

NoJob == [status |-> "none", meta |-> NoMeta]

NoTask == [csv_content |-> <<>>, retries |-> 0]

NoResp == [kind |-> "none"]

NoReq == [mapping |-> MapEmpty, rows |-> <<>>]

\* No duplicates query was made.
NoQuery == [kind |-> "none", customers |-> {}]

\* No message was broadcast yet.
NoBroadcast ==
    [status |-> "none",
     progress |-> [total |-> 0, valid |-> 0, error |-> 0, success |-> 0,
                   processing |-> 0],
     meta |-> NoMeta]

\* The jobs and the WebSocket connections of the connection manager; every
\* connection is opened for one job (/ws/job/{job_id}).
JobIds == {1, 2}

Sockets == {1, 2, 3}

SocketJob(ws) == IF ws = 3 THEN 2 ELSE 1

\* No call of manager.broadcast is in progress.
NoCall ==
    [pc |-> "idle", job_id |-> 0, message |-> 0, subs |-> {}, todo |-> {},
     size |-> 0, dead |-> {}, detached |-> FALSE]

\* The callers of refresh_token_if_needed: a request handler of the API
\* process and the worker, each with its own User object.
Callers == {"api", "worker"}

\* A User without a usable access token.
NoToken == [qbo_access_token |-> 0, qbo_refresh_token |-> 0]

NoRefresh == [pc |-> "idle", user |-> NoToken]

\* Two start-import requests for the job, handled side by side.
StartRequests == {1, 2}

\* A start request that has not arrived.
NoStart == [pc |-> "idle", job |-> NoJob, mapping |-> MapEmpty, rows |-> <<>>]

\* Two callback requests of the OAuth redirect.
CallbackRequests == {1, 2}

\* A callback that has not arrived (state 0: none).
NoCallback == [pc |-> "idle", state |-> 0]

\* Redis before any login: no state was issued, none is stored.
NoStates == [issued |-> 0, stored |-> {}]

TerminalStatuses == {"completed", "partial_success", "error"}

StartableStatuses == {"uploaded", "dry_run_complete", "dry_run_failed"}

\* State after construction: empty tables, empty queue, idle worker.
InitCommon ==
    /\ jobRows = <<>>
    /\ wpc = "idle"
    /\ wlast = "none"
    /\ wjob = NoJob
    /\ wtask = NoTask
    /\ vidx = 0
    /\ valid_count = 0
    /\ valid_rows = <<>>
    /\ i = 0
    /\ success_count = 0
    /\ requests = <<>>
    /\ lastResp = NoResp
    /\ dpc = "idle"
    /\ djob = NoJob
    /\ dreq = NoReq
    /\ dresp = NoQuery
    /\ nDryRuns = 0
    /\ nRefreshFailed = 0
    /\ lastBroadcast = NoBroadcast
    /\ active_connections = [job_id \in {} |-> {}]
    /\ closed = {}
    /\ received = [ws \in Sockets |-> <<>>]
    /\ broadcastCall = NoCall
    /\ qboUser = NoToken
    /\ refreshCalls = [c \in Callers |-> NoRefresh]
    /\ tokensIssued = 0
    /\ tokensExpired = 0
    /\ created = {}
    /\ startCalls = [r \in StartRequests |-> NoStart]
    /\ oauthStates = NoStates
    /\ callbackCalls = [r \in CallbackRequests |-> NoCallback]

Init ==
    /\ InitCommon
    /\ jobStatus = "none"
    /\ jobMeta = NoMeta
    /\ celeryQueue = <<>>
    /\ httpStatus = 0
    /\ nStarts = 0

\* --------------------------------------------------------- HTTP: upload
\* Lines 48-68: Job.create for a decodable CSV that has headers and rows.
UploadCsv(csv) ==
    /\ jobStatus = "none"
    /\ jobStatus' = "uploaded"
    /\ jobMeta' = [NoMeta EXCEPT !.headers = HeaderList, !.csv_content = csv]
    /\ httpStatus' = 200
    /\ UNCHANGED <<jobRows, celeryQueue, workerVars, dryVars, nStarts, nRefreshFailed, sideVars>>

\* Mutant of UploadRejected: the check for data rows (lines 44-46) is left out.
UploadRejectedNoRowCheck(object_type, file) ==
    \/ object_type # "customer"
    \/ ~file.decodable
    \/ file.headers = <<>>

\* Lines 30-46: the checks that reject an upload.
UploadRejected(object_type, file) ==
    \/ object_type # "customer"
    \/ ~file.decodable
    \/ file.headers = <<>>
    \/ file.rows = <<>>

\* Mutant of UploadFile: Job.create runs before the checks, so that a rejected
\* upload leaves a Job behind.
UploadCreatesBeforeChecks(object_type, file) ==
    /\ jobStatus = "none"
    /\ jobStatus' = "uploaded"
    /\ jobMeta' = [NoMeta EXCEPT !.headers = file.headers, !.csv_content = file.rows]
    /\ httpStatus' = IF UploadRejected(object_type, file) THEN 400 ELSE 200
    /\ UNCHANGED <<jobRows, celeryQueue, workerVars, dryVars, nStarts, nRefreshFailed, sideVars>>

\* upload_csv_for_mapping; the model's job is the one this request creates.
UploadFile(object_type, file) ==
    IF UploadRejected(object_type, file)
    THEN /\ jobStatus = "none"
         /\ httpStatus' = 400
         /\ UNCHANGED <<jobStatus, jobMeta, jobRows, celeryQueue, workerVars,
                        dryVars, nStarts, nRefreshFailed, sideVars>>
    ELSE UploadCsv(file.rows)

upload_csv_for_mapping ==
    \E object_type \in ObjectTypes, file \in UploadFiles :
        UploadFile(object_type, file)

\* ---------------------------------------------------- HTTP: start import
MappingOk(mapping) ==
    /\ DOMAIN mapping # {}
    /\ \E h \in DOMAIN mapping : mapping[h] = "DisplayName"

\* The rows a request carries (payload["rows"]); <<>> stands for none.
EditedChoices == {<<>>, <<RowOk>>}

\* A cell of an edited row that is JSON null (None).
NullCell == "<null>"

\* The edited rows of the start requests of SpecStart: cells with blanks
\* around them, a row without the Email key, a blank and a null cell.
EditNoEmail == [Name |-> "Beta LLC"]
EditBlank == [Name |-> " ", Email |-> NullCell]
EditRowValues == {RowAcmePadded, EditNoEmail, EditBlank}
StartEdits == {<<>>} \cup SeqsUpTo(EditRowValues, MaxEditRows)

\* Mutant of CleanRows: the cells are not stripped.
CleanRowsNoStrip(edited_rows) ==
    [k \in DOMAIN edited_rows |->
        [h \in Headers |->
            IF h \in DOMAIN edited_rows[k] /\ edited_rows[k][h] # NullCell
            THEN edited_rows[k][h] ELSE ""]]

\* Lines 103-108 (and 157-165 of the dry run): per stored header the cell
\* row_dict.get(h, ""), stringified and stripped, "" for None.
CleanRows(edited_rows) ==
    [k \in DOMAIN edited_rows |->
        [h \in Headers |->
            IF h \in DOMAIN edited_rows[k] /\ edited_rows[k][h] # NullCell
            THEN Strip(edited_rows[k][h]) ELSE ""]]

\* csv.DictWriter(output, fieldnames=headers): writeheader and one writerow
\* per row give the lines of the text, each the list of its cells in the
\* order of the fieldnames.
CsvWrite(headers, rows) ==
    <<headers>> \o [k \in DOMAIN rows |-> [p \in DOMAIN headers |-> rows[k][headers[p]]]]

\* csv.DictReader(io.StringIO(text)): the first line gives the fieldnames,
\* lines without any cell are skipped, every other line gives one record
\* (the last cell of a repeated fieldname wins).
CsvRead(lines) ==
    IF lines = <<>> THEN <<>>
    ELSE LET fieldnames == Head(lines)
             data == SelectSeq(Tail(lines), LAMBDA line : line # <<>>)
             column(h) == CHOOSE p \in DOMAIN fieldnames :
                             /\ fieldnames[p] = h
                             /\ \A q \in DOMAIN fieldnames : fieldnames[q] = h => q <= p
         IN  [k \in DOMAIN data |->
                [h \in {fieldnames[p] : p \in DOMAIN fieldnames} |->
                    data[k][column(h)]]]

\* Mutant of start_import_with_mapping: the status check (lines 85-86) is
\* left out.
StartNoStatusCheck(mapping, edited_rows) ==
    /\ nStarts < MaxStarts
    /\ nStarts' = nStarts + 1
    /\ IF jobStatus = "none"
       THEN /\ httpStatus' = 404
            /\ UNCHANGED <<jobStatus, jobMeta, celeryQueue>>
       ELSE IF ~MappingOk(mapping)
       THEN /\ httpStatus' = 400
            /\ UNCHANGED <<jobStatus, jobMeta, celeryQueue>>
       ELSE LET csv == IF edited_rows # <<>>
                       THEN CsvRead(CsvWrite(jobMeta.headers, CleanRows(edited_rows)))
                       ELSE jobMeta.csv_content
            IN  /\ jobMeta' = [jobMeta EXCEPT !.mapping = mapping,
                                              !.csv_content = csv]
                /\ jobStatus' = "queued"
                /\ celeryQueue' = Append(celeryQueue,
                                         [csv_content |-> csv, retries |-> 0])
                /\ httpStatus' = 200
    /\ UNCHANGED <<jobRows, workerVars, dryVars, nRefreshFailed, sideVars>>

\* start_import_with_mapping: status check, mapping check, meta update (the
\* CSV text written from the edited rows is kept as the records it reads
\* as), save(update_fields=["meta", "status"]) and
\* import_valid_rows_task.delay.
start_import_with_mapping(mapping, edited_rows) ==
    /\ nStarts < MaxStarts
    /\ nStarts' = nStarts + 1
    /\ IF jobStatus = "none"
       THEN /\ httpStatus' = 404
            /\ UNCHANGED <<jobStatus, jobMeta, celeryQueue>>
       ELSE IF jobStatus \notin StartableStatuses \/ ~MappingOk(mapping)
       THEN /\ httpStatus' = 400
            /\ UNCHANGED <<jobStatus, jobMeta, celeryQueue>>
       ELSE LET csv == IF edited_rows # <<>>
                       THEN CsvRead(CsvWrite(jobMeta.headers, CleanRows(edited_rows)))
                       ELSE jobMeta.csv_content
            IN  /\ jobMeta' = [jobMeta EXCEPT !.mapping = mapping,
                                              !.csv_content = csv]
                /\ jobStatus' = "queued"
                /\ celeryQueue' = Append(celeryQueue,
                                         [csv_content |-> csv, retries |-> 0])
                /\ httpStatus' = 200
    /\ UNCHANGED <<jobRows, workerVars, dryVars, nRefreshFailed, sideVars>>

StartImport ==
    \E mapping \in Mappings, edited_rows \in EditedChoices :
        start_import_with_mapping(mapping, edited_rows)

\* The start handler as the two steps its awaits split it into, for requests
\* that are served concurrently. Line 82: the request reads the job
\* (await Job.get_or_none) and holds its own copy of it.
StartLoad(r, mapping, edited_rows) ==
    /\ startCalls[r].pc = "idle"
    /\ startCalls' = [startCalls EXCEPT ![r] =
                        [pc |-> "loaded",
                         job |-> [status |-> jobStatus, meta |-> jobMeta],
                         mapping |-> mapping, rows |-> edited_rows]]
    /\ UNCHANGED <<jobStatus, jobMeta, jobRows, celeryQueue, workerVars, dryVars,
                   httpStatus, nStarts, nRefreshFailed, managerVars, tokenVars,
                   oauthVars, created>>

\* Lines 83-127: the checks are made on the copy read at line 82; the copy's
\* meta and status are saved (await job.save(update_fields=["meta",
\* "status"])) and the task is queued.
StartFinish(r) ==
    LET call == startCalls[r]
        job == call.job
    IN  /\ call.pc = "loaded"
        /\ nStarts' = nStarts + 1
        /\ IF job.status = "none"
           THEN /\ httpStatus' = 404
                /\ startCalls' = [startCalls EXCEPT ![r].pc = "rejected"]
                /\ UNCHANGED <<jobStatus, jobMeta, celeryQueue>>
           ELSE IF job.status \notin StartableStatuses \/ ~MappingOk(call.mapping)
           THEN /\ httpStatus' = 400
                /\ startCalls' = [startCalls EXCEPT ![r].pc = "rejected"]
                /\ UNCHANGED <<jobStatus, jobMeta, celeryQueue>>
           ELSE LET csv == IF call.rows # <<>>
                           THEN CsvRead(CsvWrite(job.meta.headers,
                                                 CleanRows(call.rows)))
                           ELSE job.meta.csv_content
                IN  /\ jobMeta' = [job.meta EXCEPT !.mapping = call.mapping,
                                                   !.csv_content = csv]
                    /\ jobStatus' = "queued"
                    /\ celeryQueue' = Append(celeryQueue,
                                             [csv_content |-> csv, retries |-> 0])
                    /\ httpStatus' = 200
                    /\ startCalls' = [startCalls EXCEPT ![r].pc = "accepted"]
        /\ UNCHANGED <<jobRows, workerVars, dryVars, nRefreshFailed, managerVars,
                       tokenVars, oauthVars, created>>

\* ------------------------------------------------------------ the worker
\* JobRow.payload of a row that was not validated (null).
NoPayload == [f \in {} |-> ""]

\* Mutant of NewRow: the rows are numbered from 1 (row_number=idx + 1).
NewRowNumberedFromOne(idx, raw) ==
    [row_number |-> idx, raw_data |-> raw, status |-> "pending", error |-> "",
     payload |-> NoPayload]

\* Lines 141-144: JobRow(job=job, row_number=idx + 2, ...) for the 0-based
\* idx of enumerate(rows); idx is 1-based here.
NewRow(idx, raw) ==
    [row_number |-> idx + 1, raw_data |-> raw, status |-> "pending", error |-> "",
     payload |-> NoPayload]

\* Mutant of Tallies: the tallies are taken from the counters of run_import
\* (valid_count, success_count) instead of being counted in the row store.
TalliesFromCounters(rows) ==
    [total |-> Len(rows), valid |-> valid_count - success_count,
     error |-> Len(rows) - valid_count, success |-> success_count,
     processing |-> 0]

\* Lines 113-119 of broadcast_progress: the tallies are counted in the row
\* store when the message is built.
Tallies(rows) ==
    LET count(status) == Cardinality({id \in DOMAIN rows : rows[id].status = status})
    IN  [total |-> Len(rows), valid |-> count("valid"), error |-> count("error"),
         success |-> count("success"), processing |-> count("processing")]

\* Lines 112-124, broadcast_progress: the message handed to manager.broadcast
\* holds the status and the metadata of the worker's Job object.
broadcast_progress(job, rows) ==
    [status |-> job.status, progress |-> Tallies(rows), meta |-> job.meta]

\* The task execution ends (return or raise): run_import's locals are gone.
EndTask(outcome) ==
    /\ wpc' = "idle"
    /\ wlast' = outcome
    /\ wjob' = NoJob
    /\ wtask' = NoTask
    /\ vidx' = 0
    /\ valid_count' = 0
    /\ valid_rows' = <<>>
    /\ i' = 0
    /\ success_count' = 0
    /\ requests' = <<>>
    /\ lastResp' = NoResp

\* Lines 109-129: the task is taken from the queue, the Job is loaded,
\* job.status = "parsing" is saved and broadcast.
BeginRun ==
    /\ wpc = "idle"
    /\ celeryQueue # <<>>
    /\ wtask' = Head(celeryQueue)
    /\ celeryQueue' = Tail(celeryQueue)
    /\ wjob' = [status |-> "parsing", meta |-> jobMeta]
    /\ jobStatus' = "parsing"
    /\ wpc' = "parse"
    /\ wlast' = "running"
    /\ lastBroadcast' = broadcast_progress(wjob', jobRows)
    /\ UNCHANGED <<jobMeta, jobRows, vidx, valid_count, valid_rows, i,
                   success_count, requests, lastResp, dryVars, httpStatus,
                   nStarts, nRefreshFailed, sideVars>>

\* Lines 131-150: the CSV is parsed, the JobRows are bulk-created,
\* total_rows and status "validating" are saved.
ParseCsv ==
    /\ wpc = "parse"
    /\ LET rows == wtask.csv_content
       IN  IF rows = <<>>
           THEN /\ jobStatus' = "error"
                /\ jobMeta' = [wjob.meta EXCEPT !.error = "CSV contains no data rows"]
                /\ lastBroadcast' = broadcast_progress(
                        [status |-> jobStatus', meta |-> jobMeta'], jobRows)
                /\ EndTask("returned")
                /\ UNCHANGED jobRows
           ELSE /\ jobRows' = jobRows \o
                       [idx \in 1..Len(rows) |-> NewRow(idx, rows[idx])]
                /\ wjob' = [status |-> "validating",
                            meta |-> [wjob.meta EXCEPT !.total_rows = Len(rows)]]
                /\ jobStatus' = wjob'.status
                /\ jobMeta' = wjob'.meta
                /\ lastBroadcast' = broadcast_progress(wjob', jobRows')
                /\ wpc' = "validate"
                /\ UNCHANGED <<wlast, wtask, vidx, valid_count, valid_rows, i,
                               success_count, requests, lastResp>>
    /\ UNCHANGED <<celeryQueue, dryVars, httpStatus, nStarts, nRefreshFailed, sideVars>>

\* Lines 153-158: no mapping in the worker's copy of the metadata; the status
\* is saved and the task returns (broadcast_progress is not called here).
NoMapping ==
    /\ wpc = "validate"
    /\ wjob.meta.mapping = MapEmpty
    /\ jobStatus' = "error"
    /\ jobMeta' = [wjob.meta EXCEPT !.error = "No mapping found"]
    /\ EndTask("returned")
    /\ UNCHANGED <<lastBroadcast, jobRows, celeryQueue, dryVars, httpStatus, nStarts,
                   nRefreshFailed, sideVars>>

\* Mutant of ValidateChunk: the validation loop has no try/except, so the
\* first failing row of a chunk ends the task.
ValidateChunkStopsAtError ==
    /\ wpc = "validate"
    /\ wjob.meta.mapping # MapEmpty
    /\ vidx < Len(jobRows)
    /\ LET last == Min(vidx + VALIDATE_CHUNK, Len(jobRows))
           chunk == (vidx + 1)..last
           st(id) == ValidateRow(wjob.meta.mapping, jobRows[id].raw_data)
       IN  IF \E id \in chunk : st(id) = "error"
           THEN /\ EndTask("failed")
                /\ UNCHANGED <<jobRows, lastBroadcast>>
           ELSE /\ jobRows' = [id \in DOMAIN jobRows |->
                                 IF id \in chunk
                                 THEN [jobRows[id] EXCEPT
                                         !.status = "valid",
                                         !.payload = to_qbo_payload(wjob.meta.mapping,
                                                                    jobRows[id].raw_data)]
                                 ELSE jobRows[id]]
                /\ vidx' = last
                /\ valid_count' = valid_count + Cardinality(chunk)
                /\ lastBroadcast' = IF last - vidx >= VALIDATE_CHUNK
                                    THEN broadcast_progress(wjob, jobRows')
                                    ELSE lastBroadcast
                /\ UNCHANGED <<wpc, wlast, wjob, wtask, valid_rows, i,
                               success_count, requests, lastResp>>
    /\ UNCHANGED <<jobStatus, jobMeta, celeryQueue, dryVars, httpStatus, nStarts,
                   nRefreshFailed, sideVars>>

\* Lines 163-183: the next VALIDATE_CHUNK rows of JobRow.filter(job=job).all()
\* are validated and bulk-updated; a full chunk is followed by a broadcast
\* (lines 177-180), the rest of the rows (lines 182-183) is not.
ValidateChunk ==
    /\ wpc = "validate"
    /\ wjob.meta.mapping # MapEmpty
    /\ vidx < Len(jobRows)
    /\ LET last == Min(vidx + VALIDATE_CHUNK, Len(jobRows))
           chunk == (vidx + 1)..last
           st(id) == ValidateRow(wjob.meta.mapping, jobRows[id].raw_data)
       IN  /\ jobRows' = [id \in DOMAIN jobRows |->
                            IF id \in chunk
                            THEN [jobRows[id] EXCEPT
                                    !.status = st(id),
                                    !.error = IF st(id) = "error"
                                              THEN "validation" ELSE @,
                                    !.payload = IF st(id) = "valid"
                                                THEN to_qbo_payload(wjob.meta.mapping,
                                                                    jobRows[id].raw_data)
                                                ELSE @]
                            ELSE jobRows[id]]
           /\ vidx' = last
           /\ valid_count' = valid_count
                             + Cardinality({id \in chunk : st(id) = "valid"})
           /\ lastBroadcast' = IF last - vidx >= VALIDATE_CHUNK
                               THEN broadcast_progress(wjob, jobRows')
                               ELSE lastBroadcast
    /\ UNCHANGED <<jobStatus, jobMeta, celeryQueue, wpc, wlast, wjob, wtask,
                   valid_rows, i, success_count, requests, lastResp, dryVars,
                   httpStatus, nStarts, nRefreshFailed, sideVars>>

\* Lines 185-188: valid_count and status "importing" are saved and broadcast.
SetImporting ==
    /\ wpc = "validate"
    /\ wjob.meta.mapping # MapEmpty
    /\ vidx = Len(jobRows)
    /\ wjob' = [status |-> "importing",
                meta |-> [wjob.meta EXCEPT !.valid_count = valid_count]]
    /\ jobStatus' = wjob'.status
    /\ jobMeta' = wjob'.meta
    /\ lastBroadcast' = broadcast_progress(wjob', jobRows)
    /\ wpc' = "get_client"
    /\ UNCHANGED <<jobRows, celeryQueue, wlast, wtask, vidx, valid_count,
                   valid_rows, i, success_count, requests, lastResp, dryVars,
                   httpStatus, nStarts, nRefreshFailed, sideVars>>

\* ------------------------------------------------- the provider's answers
\* bId of a response item that names no row of the batch (or is unreadable).
BadId == 0

RangeOf(seq) == {seq[k] : k \in DOMAIN seq}

\* An item of BatchItemResponse: bId, a Customer (with the Id and SyncToken
\* the provider assigned) or a Fault.
Item(id, kind) == [bId |-> id, kind |-> kind, Id |-> 100 + id, SyncToken |-> "0"]

\* Every list of items that is a permutation of a subset of the batch, each
\* item a success ("Customer") or a fault ("Fault").
PermSubsets(batch) ==
    LET ids == RangeOf(batch)
        lists == UNION {[1..k -> ids] : k \in 0..Len(batch)}
        injective == {l \in lists : \A a, b \in DOMAIN l : l[a] = l[b] => a = b}
    IN  UNION {{[k \in DOMAIN l |-> Item(l[k], kinds[k])] :
                  kinds \in [DOMAIN l -> {"Customer", "Fault"}]} : l \in injective}

\* Lists that are no permutation of a subset: an item repeated, or an item
\* the batch does not hold placed after or before the others.
Malformed(batch) ==
    LET perms == PermSubsets(batch)
    IN  {p \o <<Item(BadId, "Customer")>> : p \in perms}
        \cup {<<Item(BadId, "Customer")>> \o p : p \in perms \ {<<>>}}
        \cup {p \o <<p[1]>> : p \in perms \ {<<>>}}

\* The same outcome for every row: what a large batch is answered with.
Uniform(batch) ==
    LET n == Len(batch)
    IN  {[k \in 1..n |-> Item(batch[k], "Customer")],
         [k \in 1..n |-> Item(batch[n + 1 - k], "Customer")],
         [k \in 1..n |-> Item(batch[k], "Fault")],
         [k \in 1..(n - 1) |-> Item(batch[k], "Customer")],
         [k \in 1..n |-> Item(batch[k], "Customer")] \o <<Item(BadId, "Customer")>>,
         [k \in 1..n |-> Item(batch[k], "Customer")] \o <<Item(batch[1], "Customer")>>}

ItemLists(batch) ==
    IF Len(batch) <= SmallBatch
    THEN PermSubsets(batch) \cup Malformed(batch)
    ELSE Uniform(batch)

\* What client.post("/batch") may end in: the request raises, a status other
\* than 200/201, or a 2xx answer with a BatchItemResponse list.
Responses(batch) ==
    {[kind |-> "raise"], [kind |-> "status"]}
    \cup {[kind |-> "ok", items |-> l] : l \in ItemLists(batch)}

\* ------------------------------------------------------- the import stage
\* Lines 191-196, get_qbo_client answers: the valid rows are loaded.
GetClientOk ==
    /\ wpc = "get_client"
    /\ valid_rows' = SelectSeq([id \in DOMAIN jobRows |-> id],
                               LAMBDA id : jobRows[id].status = "valid")
    /\ i' = 0
    /\ success_count' = 0
    /\ wpc' = "import"
    /\ UNCHANGED <<lastBroadcast, jobStatus, jobMeta, jobRows, celeryQueue, wlast, wjob, wtask,
                   vidx, valid_count, requests, lastResp, dryVars, httpStatus,
                   nStarts, nRefreshFailed, sideVars>>

\* Lines 269-276 after refresh_token_if_needed raised (raise_for_status or a
\* connection error): self.retry re-queues the task until max_retries.
GetClientRaise ==
    /\ wpc = "get_client"
    /\ IF wtask.retries < max_retries
       THEN /\ celeryQueue' = Append(celeryQueue,
                                     [wtask EXCEPT !.retries = @ + 1])
            /\ EndTask("retry")
       ELSE /\ EndTask("failed")
            /\ UNCHANGED celeryQueue
    /\ nRefreshFailed' = nRefreshFailed + 1
    /\ UNCHANGED <<jobStatus, jobMeta, jobRows, dryVars, httpStatus, nStarts,
                   lastBroadcast, sideVars>>

\* The same while the number of failures explored is below the bound.
GetClientRaiseBounded ==
    /\ nRefreshFailed < MaxRefreshFailures
    /\ GetClientRaise

\* Mutant of MarkBatchError: the loop runs over valid_rows, not over the batch.
MarkBatchErrorAllValid(rows, batch, reason) ==
    [id \in DOMAIN rows |->
        IF id \in RangeOf(valid_rows)
        THEN [rows[id] EXCEPT !.status = "error", !.error = reason]
        ELSE rows[id]]

\* Lines 242-245 and 249-252: every row of the batch becomes "error".
MarkBatchError(rows, batch, reason) ==
    [id \in DOMAIN rows |->
        IF id \in RangeOf(batch)
        THEN [rows[id] EXCEPT !.status = "error", !.error = reason]
        ELSE rows[id]]

\* The columns of JobRow that the model follows.
JobRowFields == {"row_number", "status", "error", "raw_data", "payload"}

\* jrow.save(): the columns of the table are written; any other attribute of
\* the object is not.
SaveRow(jrow) == [f \in JobRowFields |-> jrow[f]]

\* Lines 220-237 for one item: the row the bId names is updated and saved;
\* on success the object also gets the attribute meta (line 226).
ApplyItem(rows, item) ==
    LET old == rows[item.bId]
        jrow == IF item.kind = "Customer"
                THEN [f \in JobRowFields \cup {"meta"} |->
                        CASE f = "status" -> "success"
                          [] f = "row_number" -> old.row_number
                          [] f = "error" -> old.error
                          [] f = "raw_data" -> old.raw_data
                          [] f = "payload" -> old.payload
                          [] OTHER -> [qbo_id |-> item.Id,
                                       sync_token |-> item.SyncToken]]
                ELSE [old EXCEPT !.status = "error", !.error = "QBO Error"]
    IN  [rows EXCEPT ![item.bId] = SaveRow(jrow)]

\* Mutant of ApplyItems: the k-th item is applied to the k-th row of the batch
\* (zip(batch, batch_responses)) instead of the row its bId names.
ApplyItemsByPosition(items, batch, rows, count) ==
    LET n == Min(Len(items), Len(batch))
        pos(id) == CHOOSE k \in 1..n : batch[k] = id
    IN  [rows |-> [id \in DOMAIN rows |->
                    IF \E k \in 1..n : batch[k] = id
                    THEN ApplyItem(rows, Item(id, items[pos(id)].kind))[id]
                    ELSE rows[id]],
         count |-> count + Cardinality({k \in 1..n : items[k].kind = "Customer"}),
         raised |-> FALSE]

\* Lines 219-237: the items are handled in the order of the response; an item
\* whose bId names no row of the batch raises and ends the loop.
RECURSIVE ApplyItems(_, _, _, _)
ApplyItems(items, batch, rows, count) ==
    IF items = <<>>
    THEN [rows |-> rows, count |-> count, raised |-> FALSE]
    ELSE LET item == Head(items)
         IN  IF item.bId \notin RangeOf(batch)
             THEN [rows |-> rows, count |-> count, raised |-> TRUE]
             ELSE ApplyItems(Tail(items), batch, ApplyItem(rows, item),
                             IF item.kind = "Customer" THEN count + 1 ELSE count)

\* Lines 200-254 for one batch and one answer of the provider.
HandleBatch(batch, resp) ==
    IF resp.kind = "raise"
    THEN [rows |-> MarkBatchError(jobRows, batch, "Request failed"),
          count |-> success_count]
    ELSE IF resp.kind = "status"
    THEN [rows |-> MarkBatchError(jobRows, batch, "Batch failed"),
          count |-> success_count]
    ELSE LET r == ApplyItems(resp.items, batch, jobRows, success_count)
         IN  IF r.raised
             THEN [rows |-> MarkBatchError(r.rows, batch, "Request failed"),
                   count |-> r.count]
             ELSE [rows |-> r.rows, count |-> r.count]

\* The rows of the batch for which the provider reports a created customer:
\* the Customer items of a 2xx answer, read or not by the worker.
Created(batch, resp) ==
    IF resp.kind = "ok"
    THEN {resp.items[k].bId : k \in {p \in DOMAIN resp.items :
                                        /\ resp.items[p].kind = "Customer"
                                        /\ resp.items[p].bId \in RangeOf(batch)}}
    ELSE {}

CurrentBatch == SubSeq(valid_rows, i + 1, Min(i + BATCH_SIZE, Len(valid_rows)))

ImportBatchWith(resp) ==
    /\ wpc = "import"
    /\ i < Len(valid_rows)
    /\ LET r == HandleBatch(CurrentBatch, resp)
       IN  /\ jobRows' = r.rows
           /\ success_count' = r.count
    /\ lastResp' = resp
    /\ requests' = Append(requests, CurrentBatch)
    /\ i' = i + BATCH_SIZE
    /\ lastBroadcast' = broadcast_progress(wjob, jobRows')
    /\ created' = created \cup Created(CurrentBatch, resp)
    /\ UNCHANGED <<jobStatus, jobMeta, celeryQueue, wpc, wlast, wjob, wtask, vidx,
                   valid_count, valid_rows, dryVars, httpStatus, nStarts,
                   nRefreshFailed, otherSideVars>>

ImportBatch == \E resp \in Responses(CurrentBatch) : ImportBatchWith(resp)

\* Mutant of Finalize: a run in which no row was valid ends as failed, with
\* the rows in error counted as failed.
FinalizeCountsInvalidRows ==
    /\ wpc = "import"
    /\ i >= Len(valid_rows)
    /\ wjob' = [status |-> IF Len(valid_rows) = 0 /\ Len(jobRows) > 0
                           THEN "failed"
                           ELSE IF success_count = Len(valid_rows)
                           THEN "completed" ELSE "partial_success",
                meta |-> [wjob.meta EXCEPT
                            !.success_count = success_count,
                            !.failed_count = Len(jobRows) - success_count]]
    /\ jobStatus' = wjob'.status
    /\ jobMeta' = wjob'.meta
    /\ lastBroadcast' = broadcast_progress(wjob', jobRows)
    /\ wpc' = "close"
    /\ UNCHANGED <<jobRows, celeryQueue, wlast, wtask, vidx, valid_count,
                   valid_rows, i, success_count, requests, lastResp, dryVars,
                   httpStatus, nStarts, nRefreshFailed, sideVars>>

\* Lines 257-263: the final status and the counts are saved and broadcast.
Finalize ==
    /\ wpc = "import"
    /\ i >= Len(valid_rows)
    /\ wjob' = [status |-> IF success_count = Len(valid_rows)
                           THEN "completed" ELSE "partial_success",
                meta |-> [wjob.meta EXCEPT
                            !.success_count = success_count,
                            !.failed_count = Len(valid_rows) - success_count]]
    /\ jobStatus' = wjob'.status
    /\ jobMeta' = wjob'.meta
    /\ lastBroadcast' = broadcast_progress(wjob', jobRows)
    /\ wpc' = "close"
    /\ UNCHANGED <<jobRows, celeryQueue, wlast, wtask, vidx, valid_count,
                   valid_rows, i, success_count, requests, lastResp, dryVars,
                   httpStatus, nStarts, nRefreshFailed, sideVars>>

\* Lines 265-266: the client and the connections are closed; the task ends.
Close ==
    /\ wpc = "close"
    /\ EndTask("returned")
    /\ UNCHANGED <<lastBroadcast, jobStatus, jobMeta, jobRows, celeryQueue, dryVars, httpStatus,
                   nStarts, nRefreshFailed, sideVars>>

\* ---------------------------------------------------------- HTTP: dry run
\* Lines 176-218 for one row: its DisplayName when it validates, "" otherwise.
DisplayNameOf(mapping, row) ==
    IF ValidateRow(mapping, row) = "valid"
    THEN normalize_to_canonical(mapping, row).data["DisplayName"]
    ELSE ""

\* unique_names (line 235): the DisplayNames of the rows that validated.
UniqueNames(mapping, rows) ==
    {DisplayNameOf(mapping, rows[k]) : k \in DOMAIN rows} \ {""}

\* The DisplayName tracked for each row (line 189), "" for a row not tracked.
DryNames(mapping, rows) ==
    [k \in DOMAIN rows |-> DisplayNameOf(mapping, rows[k])]

\* list(display_name_to_rows.keys()): the names in the order of their first row.
UniqueNameList(names) ==
    LET first == SelectSeq([k \in DOMAIN names |-> k],
                           LAMBDA k : /\ names[k] # ""
                                      /\ \A j \in 1..(k - 1) : names[j] # names[k])
    IN  [p \in DOMAIN first |-> names[first[p]]]

\* display_name_to_rows[name]: the row numbers recorded for a name.
RowNumbersOf(names, name) ==
    LET at == SelectSeq([k \in DOMAIN names |-> k], LAMBDA k : names[k] = name)
    IN  [p \in DOMAIN at |-> at[p] + 1]

\* A ValidationIssue: refs holds what the message cites (row numbers or the
\* external Id); row 0 stands for row=None.
Issue(level, code, row, refs) ==
    [level |-> level, code |-> code, row |-> row, refs |-> refs]

\* Lines 191-211: the issues of a row that did not validate.
ValidationIssues(mapping, row, idx) ==
    IF ValidateRow(mapping, row) = "valid" THEN <<>>
    ELSE IF normalize_to_canonical(mapping, row).raised
    THEN <<Issue("error", "value_error", idx, <<>>)>>
    ELSE <<Issue("error", "missing", idx, <<>>)>>

\* Lines 223-232: the issue of a row whose name was recorded for several rows.
LocalIssues(names, k) ==
    IF names[k] # "" /\ \E j \in DOMAIN names : j # k /\ names[j] = names[k]
    THEN <<Issue("error", "local_duplicate_displayname", k + 1,
                 RowNumbersOf(names, names[k]))>>
    ELSE <<>>

\* Lines 240-247: the names the query asks for, and what the external system
\* answers: its customers with one of these names.
QueriedNames(names) ==
    LET list == UniqueNameList(names)
    IN  {list[p] : p \in 1..Min(Len(list), QUERY_LIMIT)}

QueryAnswer(queried, customers) ==
    {c \in customers : c.DisplayName \in queried}

\* Lines 251-265: the issue of a row whose name is a key of existing_customers.
RemoteIssues(names, k, answer) ==
    IF names[k] # "" /\ \E c \in answer : Strip(c.DisplayName) = names[k]
    THEN <<Issue("error", "qbo_duplicate_displayname", k + 1,
                 <<(CHOOSE c \in answer : Strip(c.DisplayName) = names[k]).Id>>)>>
    ELSE <<>>

\* Mutant of GlobalIssues: the failed check is reported as an error.
GlobalIssuesAsErrors(resp) ==
    CASE resp.kind = "status" -> <<[level |-> "error", code |-> "qbo_check_failed",
                                    row |-> 0, refs |-> <<>>]>>
      [] resp.kind = "raise" -> <<[level |-> "error", code |-> "qbo_connection_error",
                                   row |-> 0, refs |-> <<>>]>>
      [] OTHER -> <<>>

\* Lines 266-284: the warning added when the query did not answer 200.
GlobalIssues(resp) ==
    CASE resp.kind = "status" -> <<Issue("warning", "qbo_check_failed", 0, <<>>)>>
      [] resp.kind = "raise" -> <<Issue("warning", "qbo_connection_error", 0, <<>>)>>
      [] OTHER -> <<>>

\* Mutant of MergeStatus: the issues are appended, the status is not updated.
MergeStatusKept(status, semantic) == status

\* Lines 286-293 for one row: a merged error-level issue makes the row "error".
MergeStatus(status, semantic) ==
    IF \E p \in DOMAIN semantic : semantic[p].level = "error"
    THEN "error" ELSE status

\* Lines 173-293: the RowValidationResults after the merge.
RowResults(mapping, rows, resp) ==
    LET names == DryNames(mapping, rows)
        answer == IF resp.kind = "ok"
                  THEN QueryAnswer(QueriedNames(names), resp.customers)
                  ELSE {}
    IN  [k \in DOMAIN rows |->
            LET semantic == LocalIssues(names, k) \o RemoteIssues(names, k, answer)
            IN  [row_number |-> k + 1,
                 status |-> MergeStatus(ValidateRow(mapping, rows[k]), semantic),
                 issues |-> ValidationIssues(mapping, rows[k], k + 1) \o semantic]]

\* A row's final status.
DryRowStatus(mapping, rows, k, resp) == RowResults(mapping, rows, resp)[k].status

RECURSIVE FlattenIssues(_)
FlattenIssues(results) ==
    IF results = <<>> THEN <<>>
    ELSE Head(results).issues \o FlattenIssues(Tail(results))

\* Lines 295-311: the summary.
DryRunSummary(row_results, resp) ==
    LET will_succeed ==
            Cardinality({k \in DOMAIN row_results : row_results[k].status = "valid"})
        global == GlobalIssues(resp)
    IN  [total_rows |-> Len(row_results), will_succeed |-> will_succeed,
         will_fail |-> Len(row_results) - will_succeed,
         warnings |-> Cardinality({p \in DOMAIN global :
                                      global[p].level = "warning"}),
         issues |-> FlattenIssues(row_results) \o global]

\* Lines 173-318: what the handler returns and stores as last_dry_run.
DryRunResult(mapping, rows, resp) ==
    LET row_results == RowResults(mapping, rows, resp)
    IN  [summary |-> DryRunSummary(row_results, resp),
         mapping_used |-> mapping,
         row_details |-> row_results]

\* Mutant of DryRunSave: a warning also makes the dry run failed.
DryRunSaveFailsOnWarning(job, result) ==
    /\ jobMeta' = [job.meta EXCEPT !.last_dry_run = result]
    /\ jobStatus' = IF result.summary.will_fail = 0 /\ result.summary.warnings = 0
                    THEN "dry_run_complete" ELSE "dry_run_failed"
    /\ httpStatus' = 200

\* Lines 313-320: the result is stored in the handler's copy of the metadata
\* and the whole Job is saved.
DryRunSave(job, result) ==
    /\ jobMeta' = [job.meta EXCEPT !.last_dry_run = result]
    /\ jobStatus' = IF result.summary.will_fail = 0
                    THEN "dry_run_complete" ELSE "dry_run_failed"
    /\ httpStatus' = 200

\* Lines 136-232: the request is checked, the Job is loaded and the rows are
\* validated; with no candidate name the handler goes on to the summary.
DryRunBegin(mapping, edited_rows) ==
    /\ dpc = "idle"
    /\ nDryRuns < MaxDryRuns
    /\ nDryRuns' = nDryRuns + 1
    /\ IF ~MappingOk(mapping)
       THEN /\ httpStatus' = 400
            /\ UNCHANGED <<jobStatus, jobMeta, dpc, djob, dreq, dresp>>
       ELSE IF jobStatus = "none"
       THEN /\ httpStatus' = 404
            /\ UNCHANGED <<jobStatus, jobMeta, dpc, djob, dreq, dresp>>
       ELSE LET job == [status |-> jobStatus, meta |-> jobMeta]
                rows == IF edited_rows # <<>> THEN CleanRows(edited_rows)
                        ELSE jobMeta.csv_content
            IN  IF UniqueNames(mapping, rows) = {}
                THEN /\ DryRunSave(job, DryRunResult(mapping, rows, NoQuery))
                     /\ dresp' = NoQuery
                     /\ UNCHANGED <<dpc, djob, dreq>>
                ELSE /\ dpc' = "remote"
                     /\ djob' = job
                     /\ dreq' = [mapping |-> mapping, rows |-> rows]
                     /\ UNCHANGED <<jobStatus, jobMeta, httpStatus, dresp>>
    /\ UNCHANGED <<jobRows, celeryQueue, workerVars, nStarts, nRefreshFailed, sideVars>>

\* Lines 236-320 once get_qbo_client and the query have ended in resp.
DryRunRemote(resp) ==
    /\ dpc = "remote"
    /\ DryRunSave(djob, DryRunResult(dreq.mapping, dreq.rows, resp))
    /\ dresp' = resp
    /\ dpc' = "idle"
    /\ djob' = NoJob
    /\ dreq' = NoReq
    /\ UNCHANGED <<jobRows, celeryQueue, workerVars, nStarts, nDryRuns,
                   nRefreshFailed, sideVars>>

\* The query answered 200: customers is what the external system holds.
DryRunRemoteOk(customers) == DryRunRemote([kind |-> "ok", customers |-> customers])

\* Lines 266-284: the query answered another status, or the client raised.
DryRunRemoteFailed(kind) == DryRunRemote([kind |-> kind, customers |-> {}])

\* The external customer of a name, and the contents of the external system
\* explored for a request: every set of customers for few candidate names;
\* for many, none, the customer of the first or the customer of the last row.
QboCustomer(name) == [DisplayName |-> name, Id |-> QboId(name)]

QboContents(names) ==
    IF Cardinality(names) <= SmallNames
    THEN SUBSET {QboCustomer(n) : n \in names}
    ELSE {{}} \cup {{QboCustomer(n)} : n \in names \cap {"1", ToString(Cardinality(names))}}

dry_run_customer_import ==
    \/ \E mapping \in Mappings, edited_rows \in EditedChoices :
          DryRunBegin(mapping, edited_rows)
    \/ \E customers \in QboContents(UniqueNames(dreq.mapping, dreq.rows)) :
          DryRunRemoteOk(customers)
    \/ \E kind \in {"status", "raise"} : DryRunRemoteFailed(kind)

\* ------------------------------------------------ core/qbo.py: the tokens
\* A token is the number of the grant that issued it (0: none); the grants
\* up to tokensExpired are past expires_at - 300.
TokenExpired(user) == user.qbo_access_token <= tokensExpired

\* What a step of refresh_token_if_needed leaves alone.
tokenOthers ==
    <<jobStatus, jobMeta, jobRows, celeryQueue, workerVars, dryVars, httpStatus,
      nStarts, nRefreshFailed, managerVars, created, startCalls, oauthVars>>

\* The caller loads its User object (get_current_user; prefetch_related
\* ("user") in the task) and calls get_qbo_client.
LoadUser(c) ==
    /\ refreshCalls[c].pc = "idle"
    /\ refreshCalls' = [refreshCalls EXCEPT ![c] = [pc |-> "loaded", user |-> qboUser]]
    /\ UNCHANGED <<qboUser, tokensIssued, tokensExpired, tokenOthers>>

\* Lines 11-16: the caller's token is not about to expire; nothing is sent.
RefreshNotNeeded(c) ==
    /\ refreshCalls[c].pc = "loaded"
    /\ ~TokenExpired(refreshCalls[c].user)
    /\ refreshCalls' = [refreshCalls EXCEPT ![c] = NoRefresh]
    /\ UNCHANGED <<qboUser, tokensIssued, tokensExpired, tokenOthers>>

\* Lines 16-25: the token is missing or about to expire; the refresh request
\* with the caller's refresh token is sent.
RefreshPost(c) ==
    /\ refreshCalls[c].pc = "loaded"
    /\ TokenExpired(refreshCalls[c].user)
    /\ refreshCalls' = [refreshCalls EXCEPT ![c].pc = "post"]
    /\ UNCHANGED <<qboUser, tokensIssued, tokensExpired, tokenOthers>>

\* Lines 26-32: the token endpoint answers with a new access token and,
\* sometimes, a rotated refresh token; the caller's User object takes them.
RefreshAnswered(c, rotated) ==
    /\ refreshCalls[c].pc = "post"
    /\ tokensIssued < MaxTokens
    /\ tokensIssued' = tokensIssued + 1
    /\ refreshCalls' = [refreshCalls EXCEPT ![c] =
          [pc |-> "save",
           user |-> [qbo_access_token |-> tokensIssued',
                     qbo_refresh_token |-> IF rotated THEN tokensIssued'
                                           ELSE @.user.qbo_refresh_token]]]
    /\ UNCHANGED <<qboUser, tokensExpired, tokenOthers>>

\* Line 26: raise_for_status (or the request) raises; nothing is stored.
RefreshRaises(c) ==
    /\ refreshCalls[c].pc = "post"
    /\ refreshCalls' = [refreshCalls EXCEPT ![c] = NoRefresh]
    /\ UNCHANGED <<qboUser, tokensIssued, tokensExpired, tokenOthers>>

\* Line 33: user.save() stores the tokens of the caller's User object.
RefreshSave(c) ==
    /\ refreshCalls[c].pc = "save"
    /\ qboUser' = refreshCalls[c].user
    /\ refreshCalls' = [refreshCalls EXCEPT ![c] = NoRefresh]
    /\ UNCHANGED <<tokensIssued, tokensExpired, tokenOthers>>

\* Time passes: every token issued so far is about to expire.
TokensExpire ==
    /\ tokensExpired < tokensIssued
    /\ tokensExpired' = tokensIssued
    /\ UNCHANGED <<qboUser, refreshCalls, tokensIssued, tokenOthers>>

refresh_token_if_needed(c) ==
    \/ RefreshNotNeeded(c)
    \/ RefreshPost(c)
    \/ \E rotated \in BOOLEAN : RefreshAnswered(c, rotated)
    \/ RefreshRaises(c)
    \/ RefreshSave(c)

\* --------------------------------- core/websocket.py: ConnectionManager
\* What a step of the connection manager leaves alone.
managerOthers ==
    <<jobStatus, jobMeta, jobRows, celeryQueue, workerVars, dryVars, httpStatus,
      nStarts, nRefreshFailed, tokenVars, created, startCalls, oauthVars>>

\* The connections registered for a job ({} when the dict has no such key).
Subscribers(job_id) ==
    IF job_id \in DOMAIN active_connections THEN active_connections[job_id] ELSE {}

Connected(ws) == ws \in Subscribers(SocketJob(ws))

\* Lines 11-15, connect: the set of the job is created when missing and the
\* connection is added.
connect(ws) ==
    /\ ~Connected(ws)
    /\ ws \notin closed
    /\ active_connections' =
          [job_id \in DOMAIN active_connections \cup {SocketJob(ws)} |->
              IF job_id = SocketJob(ws) THEN Subscribers(job_id) \cup {ws}
              ELSE active_connections[job_id]]
    /\ UNCHANGED <<closed, received, broadcastCall, managerOthers>>

\* The client of a connection goes away: receive_json of its endpoint and
\* every send_json to it raise from now on.
ClientGone(ws) ==
    /\ Connected(ws)
    /\ ws \notin closed
    /\ closed' = closed \cup {ws}
    /\ UNCHANGED <<active_connections, received, broadcastCall, managerOthers>>

\* Lines 17-21, disconnect, called by the endpoint of a connection whose
\* client has gone: the connection is discarded and an empty set is deleted.
\* A broadcast that iterates over the deleted set keeps the (now empty) set
\* object.
disconnect(ws) ==
    /\ ws \in closed
    /\ closed' = closed \ {ws}
    /\ LET job_id == SocketJob(ws)
           rest == Subscribers(job_id) \ {ws}
       IN  IF job_id \notin DOMAIN active_connections
           THEN UNCHANGED <<active_connections, broadcastCall>>
           ELSE IF rest # {}
           THEN /\ active_connections' = [active_connections EXCEPT ![job_id] = rest]
                /\ UNCHANGED broadcastCall
           ELSE /\ active_connections' =
                      [j \in DOMAIN active_connections \ {job_id} |->
                          active_connections[j]]
                /\ broadcastCall' =
                      IF broadcastCall.pc = "loop" /\ broadcastCall.job_id = job_id
                      THEN [broadcastCall EXCEPT !.detached = TRUE]
                      ELSE broadcastCall
    /\ UNCHANGED <<received, managerOthers>>

\* Lines 32-34: the dead connections are discarded from the set of the job;
\* the lookup of a deleted key raises KeyError.
BroadcastCleanUp(call) ==
    /\ IF call.dead = {}
       THEN /\ broadcastCall' = [NoCall EXCEPT !.message = call.message]
            /\ UNCHANGED active_connections
       ELSE IF call.job_id \notin DOMAIN active_connections
       THEN /\ broadcastCall' = [call EXCEPT !.pc = "raised"]
            /\ UNCHANGED active_connections
       ELSE /\ broadcastCall' = [NoCall EXCEPT !.message = call.message]
            /\ active_connections' =
                  [active_connections EXCEPT ![call.job_id] = @ \ call.dead]
    /\ UNCHANGED received

\* Lines 27-31, one round of the loop: the set iterator raises RuntimeError
\* when the size of the set has changed since the loop began; otherwise the
\* next connection is sent the message and a failing one is noted as dead;
\* after the last one the dead connections are cleaned up.
BroadcastIterate(call) ==
    LET iterated == IF call.detached THEN {} ELSE Subscribers(call.job_id)
    IN  IF Cardinality(iterated) # call.size
        THEN /\ broadcastCall' = [call EXCEPT !.pc = "raised"]
             /\ UNCHANGED <<active_connections, received>>
        ELSE IF call.todo \cap iterated = {}
        THEN BroadcastCleanUp(call)
        ELSE \E ws \in call.todo \cap iterated :
                /\ broadcastCall' =
                      [call EXCEPT !.todo = @ \ {ws},
                                   !.dead = IF ws \in closed THEN @ \cup {ws} ELSE @]
                /\ received' =
                      IF ws \in closed THEN received
                      ELSE [received EXCEPT ![ws] =
                              Append(@, [message |-> call.message,
                                         job_id |-> call.job_id])]
                /\ UNCHANGED active_connections

\* Lines 23-29, broadcast is called: it returns at once for a job without a
\* set, else the loop begins with its first round.
BroadcastBegin(job_id) ==
    /\ broadcastCall.pc = "idle"
    /\ broadcastCall.message < MaxMessages
    /\ IF job_id \notin DOMAIN active_connections
       THEN /\ broadcastCall' = [NoCall EXCEPT !.message = broadcastCall.message + 1]
            /\ UNCHANGED <<active_connections, received>>
       ELSE BroadcastIterate([pc |-> "loop", job_id |-> job_id,
                              message |-> broadcastCall.message + 1,
                              subs |-> active_connections[job_id],
                              todo |-> active_connections[job_id],
                              size |-> Cardinality(active_connections[job_id]),
                              dead |-> {}, detached |-> FALSE])
    /\ UNCHANGED <<closed, managerOthers>>

\* The loop goes on after the awaited send_json.
BroadcastNext ==
    /\ broadcastCall.pc = "loop"
    /\ BroadcastIterate(broadcastCall)
    /\ UNCHANGED <<closed, managerOthers>>

broadcast ==
    \/ \E job_id \in JobIds : BroadcastBegin(job_id)
    \/ BroadcastNext

\* ------------------------------------------------------------ OAuth login
oauthOthers ==
    <<jobStatus, jobMeta, jobRows, celeryQueue, workerVars, dryVars, nStarts,
      nRefreshFailed, managerVars, created, startCalls>>

\* Lines 17-32: a fresh state (uuid4) is stored under qbo_state:{state} with
\* a time to live.
qbo_login ==
    /\ oauthStates.issued < MaxLogins
    /\ oauthStates' = [issued |-> oauthStates.issued + 1,
                       stored |-> oauthStates.stored \cup {oauthStates.issued + 1}]
    /\ httpStatus' = 200
    /\ UNCHANGED <<callbackCalls, tokenVars, oauthOthers>>

\* setex(..., STATE_TTL, ...): Redis drops the key when its time is over.
StateExpires(state) ==
    /\ state \in oauthStates.stored
    /\ oauthStates' = [oauthStates EXCEPT !.stored = @ \ {state}]
    /\ UNCHANGED <<callbackCalls, httpStatus, tokenVars, oauthOthers>>

\* Lines 41-51: a missing state (0) is refused; the state is looked up
\* (await redis_client.get) and refused when the key is not there.
CallbackGet(r, state) ==
    /\ callbackCalls[r].pc = "idle"
    /\ IF state = 0 \/ state \notin oauthStates.stored
       THEN /\ callbackCalls' = [callbackCalls EXCEPT
                                    ![r] = [pc |-> "rejected", state |-> state]]
            /\ httpStatus' = 400
       ELSE /\ callbackCalls' = [callbackCalls EXCEPT
                                    ![r] = [pc |-> "passed", state |-> state]]
            /\ UNCHANGED httpStatus
    /\ UNCHANGED <<oauthStates, tokenVars, oauthOthers>>

\* Line 54: the key is deleted (await redis_client.delete), there or not.
CallbackDelete(r) ==
    /\ callbackCalls[r].pc = "passed"
    /\ oauthStates' = [oauthStates EXCEPT !.stored = @ \ {callbackCalls[r].state}]
    /\ callbackCalls' = [callbackCalls EXCEPT ![r].pc = "deleted"]
    /\ UNCHANGED <<httpStatus, tokenVars, oauthOthers>>

\* Lines 57-82: the code is exchanged; a non-200 answer ends the request with
\* 400, otherwise the tokens of the answer are saved on the user.
CallbackExchange(r, answered) ==
    /\ callbackCalls[r].pc = "deleted"
    /\ IF answered
       THEN /\ tokensIssued' = tokensIssued + 1
            /\ qboUser' = [qbo_access_token |-> tokensIssued + 1,
                           qbo_refresh_token |-> tokensIssued + 1]
            /\ callbackCalls' = [callbackCalls EXCEPT ![r].pc = "stored"]
            /\ httpStatus' = 200
       ELSE /\ callbackCalls' = [callbackCalls EXCEPT ![r].pc = "failed"]
            /\ httpStatus' = 400
            /\ UNCHANGED <<qboUser, tokensIssued>>
    /\ UNCHANGED <<oauthStates, refreshCalls, tokensExpired, oauthOthers>>

callback(r) ==
    \/ \E state \in 0..MaxLogins : CallbackGet(r, state)
    \/ CallbackDelete(r)
    \/ \E answered \in BOOLEAN : CallbackExchange(r, answered)

\* ------------------------------------------------------- specifications
run_import ==
    \/ BeginRun
    \/ ParseCsv
    \/ ValidateChunk
    \/ SetImporting
    \/ GetClientOk
    \/ ImportBatch
    \/ Finalize
    \/ Close

\* The whole system: the HTTP handlers and the worker.
Next ==
    \/ upload_csv_for_mapping
    \/ StartImport
    \/ dry_run_customer_import
    \/ run_import
    \/ NoMapping
    \/ GetClientRaiseBounded

Spec == Init /\ [][Next]_vars

\* A job that was uploaded and queued, with no further HTTP request: the
\* task and all its retries.
Queued(csvs) ==
    /\ InitCommon
    /\ \E csv \in csvs, mapping \in {MapName, MapNameEmail} :
          /\ jobMeta = [NoMeta EXCEPT !.headers = HeaderList,
                                      !.csv_content = csv, !.mapping = mapping]
          /\ celeryQueue = <<[csv_content |-> csv, retries |-> 0]>>
    /\ jobStatus = "queued"
    /\ httpStatus = 200
    /\ nStarts = 1

InitQueued == Queued(SmallCsvs)

NextWorker ==
    \/ run_import
    \/ GetClientRaise

SpecWorker == InitQueued /\ [][NextWorker]_vars

\* A queued job with a long CSV and a token endpoint that answers: one run
\* of the task over several batches.
InitBatch == Queued(BigCsvs)

NextBatch == run_import

SpecBatch == InitBatch /\ [][NextBatch]_vars

\* A queued job whose mapping names targets the normalizer knows and one it
\* does not, and one run of the task.
InitPayload ==
    /\ InitCommon
    /\ \E csv \in SmallCsvs, mapping \in {MapNameEmail, MapNameCustom} :
          /\ jobMeta = [NoMeta EXCEPT !.headers = HeaderList,
                                      !.csv_content = csv, !.mapping = mapping]
          /\ celeryQueue = <<[csv_content |-> csv, retries |-> 0]>>
    /\ jobStatus = "queued"
    /\ httpStatus = 200
    /\ nStarts = 1

SpecPayload == InitPayload /\ [][NextBatch]_vars

\* The task is always executed again while one is queued or running.
FairSpecWorker == SpecWorker /\ WF_vars(NextWorker)

\* The run over several batches, always continued while a step is enabled.
FairSpecBatch == SpecBatch /\ WF_vars(NextBatch)

\* An uploaded job and the dry-run requests for it, with no start request.
Uploaded(csvs) ==
    /\ InitCommon
    /\ \E csv \in csvs :
          jobMeta = [NoMeta EXCEPT !.headers = HeaderList, !.csv_content = csv]
    /\ jobStatus = "uploaded"
    /\ celeryQueue = <<>>
    /\ httpStatus = 200
    /\ nStarts = 0

InitDry == Uploaded(DryCsvs)

NextDry == dry_run_customer_import

SpecDry == InitDry /\ [][NextDry]_vars

\* The same with a CSV that has more names than one query takes.
InitDryMany == Uploaded(DryCsvs \cup ManyCsvs)

SpecDryMany == InitDryMany /\ [][NextDry]_vars

\* The three handlers and the task, for a one-row CSV and a token endpoint
\* that answers: every file an upload may carry, and a bounded number of
\* start-import and dry-run requests at any point of the task.
HttpFiles ==
    {Undecodable, EmptyFile, HeaderOnly, CsvFile(<<RowOk>>), CsvFile(<<RowBadEmail>>)}

RequestsLeft == nStarts + nDryRuns < MaxRequests

NextHttp ==
    \/ \E object_type \in ObjectTypes, file \in HttpFiles :
          UploadFile(object_type, file)
    \/ RequestsLeft /\ StartImport
    \/ RequestsLeft /\ \E mapping \in Mappings, edited_rows \in EditedChoices :
                          DryRunBegin(mapping, edited_rows)
    \/ \E customers \in QboContents(UniqueNames(dreq.mapping, dreq.rows)) :
          DryRunRemoteOk(customers)
    \/ \E kind \in {"status", "raise"} : DryRunRemoteFailed(kind)
    \/ run_import
    \/ NoMapping

SpecHttp == Init /\ [][NextHttp]_vars

\* An uploaded job, the start requests made while it may be started, with or
\* without edited rows, and the task.
InitStart == Uploaded(SmallCsvs)

NextStart ==
    \/ /\ jobStatus \in StartableStatuses
       /\ \E mapping \in Mappings, edited_rows \in StartEdits :
             start_import_with_mapping(mapping, edited_rows)
    \/ run_import

SpecStart == InitStart /\ [][NextStart]_vars

\* An uploaded job and two start requests served concurrently.
InitStarts == Uploaded(SmallCsvs)

NextStarts ==
    \/ \E r \in StartRequests, mapping \in Mappings, edited_rows \in EditedChoices :
          StartLoad(r, mapping, edited_rows)
    \/ \E r \in StartRequests : StartFinish(r)

SpecStarts == InitStarts /\ [][NextStarts]_vars

\* The two places that number the rows of a CSV: a queued job with its task
\* and all its retries, or an uploaded job with its dry runs.
InitRows == InitQueued \/ InitDry

NextRows ==
    \/ nStarts = 1 /\ NextWorker
    \/ nStarts = 0 /\ NextDry

SpecRows == InitRows /\ [][NextRows]_vars

\* The two callers of get_qbo_client for one user, the token endpoint and
\* the passing of time.
NextToken ==
    \/ \E c \in Callers : LoadUser(c)
    \/ \E c \in Callers : refresh_token_if_needed(c)
    \/ TokensExpire

SpecToken == Init /\ [][NextToken]_vars

\* The OAuth login: logins, expiring states and two callback requests served
\* concurrently.
NextOAuth ==
    \/ qbo_login
    \/ \E state \in 1..MaxLogins : StateExpires(state)
    \/ \E r \in CallbackRequests : callback(r)

SpecOAuth == Init /\ [][NextOAuth]_vars

\* One connection manager: the WebSocket endpoints and calls of broadcast in
\* the same event loop.
NextManager ==
    \/ \E ws \in Sockets : connect(ws)
    \/ \E ws \in Sockets : ClientGone(ws)
    \/ \E ws \in Sockets : disconnect(ws)
    \/ broadcast

SpecManager == Init /\ [][NextManager]_vars

\* ================================================================ claims
StatusRank(status) ==
    CASE status = "none" -> 0
      [] status = "uploaded" -> 1
      [] status \in {"dry_run_complete", "dry_run_failed"} -> 2
      [] status = "queued" -> 3
      [] status = "parsing" -> 4
      [] status = "validating" -> 5
      [] status = "importing" -> 6
      [] OTHER -> 7

Last(seq) == seq[Len(seq)]

RECURSIVE Concat(_)
Concat(seqs) == IF seqs = <<>> THEN <<>> ELSE Head(seqs) \o Concat(Tail(seqs))

\* The rows submitted in this run that now have status success.
Succeeded == {id \in RangeOf(valid_rows) : jobRows[id].status = "success"}

\* The import stage of the run has just finished (Finalize was the last step
\* of the worker).
ImportFinished == wpc = "close"

\* C1: the job's status never moves back along uploaded -> dry_run_* ->
\* queued -> parsing -> validating -> importing -> terminal, and a terminal
\* status is never changed again.
C1_StatusMonotonic ==
    [][/\ StatusRank(jobStatus') >= StatusRank(jobStatus)
       /\ jobStatus \in TerminalStatuses => jobStatus' = jobStatus]_vars

\* C2: once the worker has parsed the CSV, the job has exactly one JobRow per
\* data row of the CSV, also after a retry or a second queueing.
C2_RowsCreatedOnce ==
    jobRows # <<>> => Len(jobRows) = Len(jobMeta.csv_content)

\* C3: under fair scheduling of the worker every queued job eventually has a
\* terminal status, whatever the provider and the token endpoint answer.
C3_QueuedReachesTerminal ==
    (jobStatus = "queued") ~> (jobStatus \in TerminalStatuses)

\* C4: when the import stage finishes, the status is completed iff every row
\* that was valid at the start of the stage is now success, else
\* partial_success.
C4_CompletedIffAllSucceeded ==
    ImportFinished =>
        /\ jobStatus \in {"completed", "partial_success"}
        /\ jobStatus = "completed" <=> Succeeded = RangeOf(valid_rows)

\* C6: when the import stage finishes, every submitted row is success or
\* error; none is left valid.
C6_NoRowLeftValid ==
    ImportFinished =>
        \A id \in RangeOf(valid_rows) : jobRows[id].status \in {"success", "error"}

\* C9: when the import stage finishes, success_count is the number of
\* submitted rows that are success, failed_count the number of the others;
\* both are non-negative and success_count is at most the rows submitted.
C9_CountsMatchRows ==
    ImportFinished =>
        /\ jobMeta.success_count = Cardinality(Succeeded)
        /\ jobMeta.failed_count = Cardinality(RangeOf(valid_rows) \ Succeeded)
        /\ jobMeta.success_count >= 0
        /\ jobMeta.failed_count >= 0
        /\ jobMeta.success_count <= Len(valid_rows)

\* C10: the task is re-run at most max_retries times for one enqueue, and
\* once the retries are exhausted the job's status is error.
C10_ExhaustedRetriesFailJob ==
    /\ wtask.retries <= max_retries
    /\ nRefreshFailed <= max_retries + 1
    /\ \A k \in DOMAIN celeryQueue : celeryQueue[k].retries <= max_retries
    /\ wlast = "failed" => jobStatus = "error"

\* A batch request was answered in this step: the batch and the answer.
BatchStep == Len(requests') = Len(requests) + 1

BatchFailed(resp) == resp.kind \in {"raise", "status"}

BatchReason(resp) == IF resp.kind = "raise" THEN "Request failed" ELSE "Batch failed"

AllSuccess(rows, ids) == \A k \in DOMAIN ids : rows[ids[k]].status = "success"

AllError(rows, ids) == \A k \in DOMAIN ids : rows[ids[k]].status = "error"

\* C5: when the call for a batch fails as a whole, every row of the batch
\* becomes error with the batch-level reason, no other row changes, and the
\* loop goes on with the next batch, so that every batch is submitted before
\* the stage finishes.  With 35 valid rows the batches are rows 1-30 and
\* 31-35; when the second call fails after the first 30 succeeded, the 30
\* stay success, the 5 become error and the job ends partial_success.
C5_BatchFailureIsLocal ==
    [][/\ (BatchStep /\ BatchFailed(lastResp')) =>
            LET batch == Last(requests')
            IN  /\ \A id \in RangeOf(batch) :
                      /\ jobRows'[id].status = "error"
                      /\ jobRows'[id].error = BatchReason(lastResp')
                /\ \A id \in DOMAIN jobRows \ RangeOf(batch) :
                      jobRows'[id] = jobRows[id]
                /\ DOMAIN jobRows' = DOMAIN jobRows
                /\ wpc' = "import"
                /\ i' = i + BATCH_SIZE
       /\ (wpc = "import" /\ wpc' = "close") =>
            /\ Concat(requests) = valid_rows
            /\ (/\ Len(valid_rows) = 35
                /\ BatchFailed(lastResp)
                /\ AllSuccess(jobRows, SubSeq(valid_rows, 1, 30)))
               => /\ requests = <<SubSeq(valid_rows, 1, 30), SubSeq(valid_rows, 31, 35)>>
                  /\ AllSuccess(jobRows', SubSeq(valid_rows, 1, 30))
                  /\ AllError(jobRows', SubSeq(valid_rows, 31, 35))
                  /\ jobStatus' = "partial_success"]_vars

\* C5 witness: 35 valid rows, the second call raised, 30 success and 5 error.
C5_Witness ==
    /\ ImportFinished
    /\ Len(valid_rows) = 35
    /\ Len(requests) = 2
    /\ lastResp.kind = "raise"
    /\ AllSuccess(jobRows, SubSeq(valid_rows, 1, 30))
    /\ AllError(jobRows, SubSeq(valid_rows, 31, 35))
    /\ jobStatus = "partial_success"

\* The items name distinct rows of the batch: a permutation of a subset.
IsPermOfSubset(items, batch) ==
    /\ \A k \in DOMAIN items : items[k].bId \in RangeOf(batch)
    /\ \A a, b \in DOMAIN items : items[a].bId = items[b].bId => a = b

OutcomeStatus(item) == IF item.kind = "Customer" THEN "success" ELSE "error"

\* C7: for a 2xx answer whose items are a permutation of a subset of the
\* submitted items, each item's outcome is applied to the row its bId names
\* and no other row is changed.
C7_ItemsMatchedByBId ==
    [][(/\ BatchStep
        /\ lastResp'.kind = "ok"
        /\ IsPermOfSubset(lastResp'.items, Last(requests'))) =>
          LET items == lastResp'.items
              named == {items[k].bId : k \in DOMAIN items}
          IN  /\ \A k \in DOMAIN items :
                    jobRows'[items[k].bId].status = OutcomeStatus(items[k])
              /\ \A id \in DOMAIN jobRows \ named : jobRows'[id] = jobRows[id]
              /\ DOMAIN jobRows' = DOMAIN jobRows]_vars

\* C7 witness: a two-row batch answered in reverse order, the second row
\* first with a fault, then the first row with a success.
C7_Witness ==
    /\ wpc = "import"
    /\ Len(requests) = 1
    /\ Len(requests[1]) = 2
    /\ lastResp.kind = "ok"
    /\ lastResp.items = <<Item(requests[1][2], "Fault"), Item(requests[1][1], "Customer")>>
    /\ jobRows[requests[1][1]].status = "success"
    /\ jobRows[requests[1][2]].status = "error"

\* C8: the batch requests of a run partition the rows valid at the start of
\* the import stage into consecutive chunks in row-number order, each of 1 to
\* BATCH_SIZE rows and all but the last of exactly BATCH_SIZE.
C8_BatchesPartitionValidRows ==
    /\ Concat(requests) = SubSeq(valid_rows, 1, Len(Concat(requests)))
    /\ \A k \in DOMAIN requests :
          /\ Len(requests[k]) >= 1
          /\ Len(requests[k]) <= BATCH_SIZE
          /\ k < Len(requests) => Len(requests[k]) = BATCH_SIZE
    /\ ImportFinished => Concat(requests) = valid_rows
    /\ \A a, b \in DOMAIN valid_rows :
          a < b => jobRows[valid_rows[a]].row_number <= jobRows[valid_rows[b]].row_number

\* A start-import request was handled in this step.
StartStep == nStarts' = nStarts + 1

\* C11: the status becomes queued only in a start-import step that finds the
\* job in status uploaded, dry_run_complete or dry_run_failed and stores a
\* mapping with a column mapped to DisplayName; every other start-import
\* request (other status, unknown job, no DisplayName column) is rejected and
\* leaves the status as it is.
C11_QueuedOnlyByStart ==
    [][/\ (jobStatus' = "queued" /\ jobStatus # "queued") =>
            /\ StartStep
            /\ jobStatus \in StartableStatuses
            /\ MappingOk(jobMeta'.mapping)
       /\ StartStep =>
            \/ /\ jobStatus \in StartableStatuses
               /\ MappingOk(jobMeta'.mapping)
               /\ jobStatus' = "queued"
               /\ httpStatus' = 200
            \/ /\ jobStatus' = jobStatus
               /\ httpStatus' \in {400, 404}
       /\ \A mapping \in Mappings, edited_rows \in EditedChoices :
            (/\ start_import_with_mapping(mapping, edited_rows)
             /\ (jobStatus \notin StartableStatuses \/ ~MappingOk(mapping)))
            => (jobStatus' = jobStatus /\ httpStatus' \in {400, 404})]_vars

\* C11 witness: a first start queued the job, a second one was rejected.
C11_Witness ==
    /\ jobStatus = "queued"
    /\ nStarts = 2
    /\ httpStatus = 400
    /\ Len(celeryQueue) = 1

\* A request was answered with a client or server error in this step.
RejectStep ==
    /\ httpStatus' \in {400, 404, 500}
    /\ \/ httpStatus' # httpStatus
       \/ nStarts' # nStarts
       \/ nDryRuns' # nDryRuns

\* C12: a step in which upload, start-import or dry-run rejects the request
\* leaves the Job, its JobRows and the task queue as they were.
C12_RejectionChangesNothing ==
    [][RejectStep => UNCHANGED <<jobStatus, jobMeta, jobRows, celeryQueue>>]_vars

\* C12 witness: a dry run was rejected while the task of the job is queued.
C12_Witness ==
    /\ jobStatus = "queued"
    /\ nDryRuns = 1
    /\ nStarts = 1
    /\ httpStatus = 400
    /\ jobMeta.last_dry_run = NoDryRun

\* The file has at least one header and at least one data row.
HasHeaderAndRow(file) == file.decodable /\ file.headers # <<>> /\ file.rows # <<>>

\* C13: an upload for the customer type creates the Job, in status uploaded
\* with the header list and the CSV text in its metadata, if and only if the
\* file has at least one header and one data row; otherwise it fails and no
\* Job is created.
C13_UploadCreatesJobIffHeaderAndRow ==
    [][\A file \in HttpFiles :
          UploadFile("customer", file) =>
              IF HasHeaderAndRow(file)
              THEN /\ jobStatus = "none"
                   /\ jobStatus' = "uploaded"
                   /\ jobMeta'.headers = file.headers
                   /\ jobMeta'.csv_content = file.rows
                   /\ httpStatus' = 200
              ELSE /\ jobStatus' = "none"
                   /\ jobMeta' = NoMeta
                   /\ httpStatus' = 400]_vars

\* C13 witness: the job right after a successful upload.
C13_Witness ==
    /\ jobStatus = "uploaded"
    /\ jobMeta.headers = HeaderList
    /\ jobMeta.csv_content = <<RowBadEmail>>
    /\ httpStatus = 200
    /\ nStarts = 0
    /\ nDryRuns = 0

\* The DisplayName the worker's mapping gives a JobRow.
RowDisplayName(id) == DisplayNameOf(wjob.meta.mapping, jobRows[id].raw_data)

\* C14: in a worker run no row whose DisplayName also occurs in another row
\* of the job is submitted to the provider: in the import stage the rows to
\* submit have pairwise different DisplayNames, and a row that shares its
\* DisplayName with another row has status error.
C14_WorkerAppliesDuplicateDetector ==
    wpc = "import" =>
        /\ \A a, b \in RangeOf(valid_rows) :
              a # b => RowDisplayName(a) # RowDisplayName(b)
        /\ requests = <<>> =>
              \A a, b \in DOMAIN jobRows :
                 (/\ a # b
                  /\ RowDisplayName(a) # ""
                  /\ RowDisplayName(a) = RowDisplayName(b)) => jobRows[a].status = "error"

\* The handler of a dry run returns in this step, after the duplicates query;
\* its mapping and rows are dreq, its result is the new last_dry_run.
DryRunEnds == dpc = "remote" /\ dpc' = "idle"

\* The trimmed cell of the column mapped to DisplayName ("" when there is none).
RawDisplayName(mapping, row) ==
    LET hs == {h \in DOMAIN mapping : mapping[h] = "DisplayName"}
    IN  IF hs = {} THEN "" ELSE Strip(row[CHOOSE h \in hs : TRUE])

HasIssue(detail, code) ==
    \E p \in DOMAIN detail.issues :
        detail.issues[p].code = code /\ detail.issues[p].level = "error"

\* C15: in the result of a dry run every row whose trimmed DisplayName occurs
\* in another row has an error-level issue local_duplicate_displayname that
\* cites the numbers of the other rows, and has status error.
C15_LocalDuplicatesAllFlagged ==
    [][DryRunEnds =>
        LET rows == dreq.rows
            name(k) == RawDisplayName(dreq.mapping, rows[k])
            details == jobMeta'.last_dry_run.row_details
        IN  \A a \in DOMAIN rows :
               LET others == {b \in DOMAIN rows \ {a} : name(b) = name(a)}
               IN  (name(a) # "" /\ others # {}) =>
                      /\ details[a].status = "error"
                      /\ \E p \in DOMAIN details[a].issues :
                            /\ details[a].issues[p].code = "local_duplicate_displayname"
                            /\ details[a].issues[p].level = "error"
                            /\ \A b \in others :
                                  b + 1 \in RangeOf(details[a].issues[p].refs)]_vars

\* C16: the dry run of the rows ("Acme Inc", "bad-email") and ("Acme Inc",
\* "good@x.com") with Name mapped to DisplayName and Email to
\* PrimaryEmailAddr.Address has total_rows = 2, will_fail >= 1, and both rows
\* carry an issue local_duplicate_displayname.
C16_ScenarioBothRowsFlagged ==
    [][(/\ DryRunEnds
        /\ dreq.rows = <<RowBadEmail, RowOk>>
        /\ dreq.mapping = MapNameEmail) =>
          LET result == jobMeta'.last_dry_run
          IN  /\ result.summary.total_rows = 2
              /\ result.summary.will_fail >= 1
              /\ HasIssue(result.row_details[1], "local_duplicate_displayname")
              /\ HasIssue(result.row_details[2], "local_duplicate_displayname")]_vars

\* The duplicates query of the dry run that returns in this step answered 200.
DryRunEndsOk == DryRunEnds /\ dresp'.kind = "ok"

\* C17: when the duplicates query succeeds, every row that validated and whose
\* DisplayName is the name of a customer of the external system has an
\* error-level issue qbo_duplicate_displayname citing that customer's Id and
\* has status error, however many candidate names the rows have.
C17_RemoteDuplicatesAllFlagged ==
    [][DryRunEndsOk =>
        LET names == DryNames(dreq.mapping, dreq.rows)
            details == jobMeta'.last_dry_run.row_details
        IN  \A k \in DOMAIN names : \A c \in dresp'.customers :
               (names[k] # "" /\ c.DisplayName = names[k]) =>
                  /\ details[k].status = "error"
                  /\ \E p \in DOMAIN details[k].issues :
                        /\ details[k].issues[p].code = "qbo_duplicate_displayname"
                        /\ details[k].issues[p].level = "error"
                        /\ details[k].issues[p].refs = <<c.Id>>]_vars

\* The duplicates query of the dry run that returns in this step failed: a
\* status other than 200, or the client or the token refresh raised.
DryRunEndsFailed == DryRunEnds /\ dresp'.kind \in {"status", "raise"}

WarningsOf(issues) == {p \in DOMAIN issues : issues[p].level = "warning"}

\* C18: when the duplicates query fails, the result has exactly one
\* warning-level issue, with no row number, and warnings = 1; the rows'
\* statuses and issues and will_fail are what they are without the remote
\* check, and the result is returned and saved on the job.
C18_QueryFailureIsOneWarning ==
    [][DryRunEndsFailed =>
        LET result == jobMeta'.last_dry_run
            local == DryRunResult(dreq.mapping, dreq.rows, NoQuery)
        IN  /\ Cardinality(WarningsOf(result.summary.issues)) = 1
            /\ \A p \in WarningsOf(result.summary.issues) :
                  result.summary.issues[p].row = 0
            /\ result.summary.warnings = 1
            /\ result.row_details = local.row_details
            /\ \A k \in DOMAIN result.row_details :
                  /\ ~HasIssue(result.row_details[k], "qbo_duplicate_displayname")
                  /\ WarningsOf(result.row_details[k].issues) = {}
            /\ result.summary.will_fail = local.summary.will_fail
            /\ result.summary.total_rows = Len(dreq.rows)
            /\ httpStatus' = 200
            /\ jobStatus' = IF result.summary.will_fail = 0
                            THEN "dry_run_complete" ELSE "dry_run_failed"]_vars

\* C18 witness: the client raised, the two rows are valid and the dry run is
\* saved as complete with one warning.
C18_Witness ==
    /\ dresp.kind = "raise"
    /\ jobStatus = "dry_run_complete"
    /\ jobMeta.last_dry_run.summary.warnings = 1
    /\ jobMeta.last_dry_run.summary.will_fail = 0
    /\ jobMeta.last_dry_run.summary.total_rows = 2
    /\ Len(jobMeta.last_dry_run.summary.issues) = 1

\* The rows in another order: every permutation of a short list, the reverse
\* of a long one.
Reorderings(rows) ==
    LET n == Len(rows)
    IN  IF n <= MaxDryRows + 1
        THEN {[k \in 1..n |-> rows[f[k]]] :
                 f \in {g \in [1..n -> 1..n] : \A a, b \in 1..n : g[a] = g[b] => a = b}}
        ELSE {[k \in 1..n |-> rows[n + 1 - k]]}

\* The rows, by content, that a result flags as local or remote duplicates.
FlaggedRows(rows, details) ==
    {rows[k] : k \in {j \in DOMAIN rows :
                        \/ HasIssue(details[j], "local_duplicate_displayname")
                        \/ HasIssue(details[j], "qbo_duplicate_displayname")}}

\* C19: a dry run of the same rows in another order, with the same customers
\* in the external system, flags the same rows as duplicates.
C19_DuplicatesIndependentOfOrder ==
    [][DryRunEndsOk =>
        \A reordered \in Reorderings(dreq.rows) :
            \A other \in {RowResults(dreq.mapping, reordered, dresp')} :
                FlaggedRows(reordered, other)
                = FlaggedRows(dreq.rows, jobMeta'.last_dry_run.row_details)]_vars

ErrorsOf(issues) == {p \in DOMAIN issues : issues[p].level = "error"}

\* C20: in the result of a dry run a row has status error if and only if its
\* issue list holds an issue of level error; a row with no issue, or with
\* warnings only, has status valid.
C20_ErrorIffErrorIssue ==
    \A k \in DOMAIN jobMeta.last_dry_run.row_details :
        LET detail == jobMeta.last_dry_run.row_details[k]
        IN  /\ detail.status \in {"valid", "error"}
            /\ detail.status = "error" <=> ErrorsOf(detail.issues) # {}
            /\ ErrorsOf(detail.issues) = {} => detail.status = "valid"

\* C20 witness: a result with a row that validated and is error because of a
\* duplicate in the external system, and a row that is valid with no issue.
C20_Witness ==
    /\ dresp.kind = "ok"
    /\ Len(jobMeta.last_dry_run.row_details) = 2
    /\ jobMeta.last_dry_run.row_details[1].status = "error"
    /\ HasIssue(jobMeta.last_dry_run.row_details[1], "qbo_duplicate_displayname")
    /\ Len(jobMeta.last_dry_run.row_details[1].issues) = 1
    /\ jobMeta.last_dry_run.row_details[2].status = "valid"
    /\ jobMeta.last_dry_run.row_details[2].issues = <<>>

\* A step of the dry-run handler: the request is taken up, or it returns.
DryRunStep == nDryRuns' # nDryRuns \/ DryRunEnds

\* The metadata keys other than the dry-run snapshot.
OtherMetaKeys == DOMAIN NoMeta \ {"last_dry_run"}

\* C21: a dry run posts no batch request, creates and updates no JobRow and
\* queues no task; of the job it changes only the status and the
\* last_dry_run key of the metadata.
C21_DryRunChangesOnlySnapshot ==
    [][DryRunStep =>
         /\ UNCHANGED <<jobRows, celeryQueue, requests>>
         /\ \A key \in OtherMetaKeys : jobMeta'[key] = jobMeta[key]]_vars

\* The row fails normalization or validation under the mapping.
FailsValidation(mapping, raw_data) ==
    \/ normalize_to_canonical(mapping, raw_data).raised
    \/ CustomerCanonical(normalize_to_canonical(mapping, raw_data).data).raised

\* The JobRows of this run: the last total_rows rows of the row store.
RunRows ==
    {id \in DOMAIN jobRows : id > Len(jobRows) - Len(wtask.csv_content)}

\* Every row of the run was validated: it failed and is "error" with an
\* error text, or it passed and was left to the import stage.
AllRowsValidated ==
    \A id \in RunRows :
        IF FailsValidation(wjob.meta.mapping, jobRows[id].raw_data)
        THEN jobRows[id].status = "error" /\ jobRows[id].error # ""
        ELSE jobRows[id].status \in {"valid", "success", "error"}

\* No row that fails validation is an item of a batch request.
NoErrorRowRequested ==
    \A k \in DOMAIN requests : \A id \in RangeOf(requests[k]) :
        ~FailsValidation(wjob.meta.mapping, jobRows[id].raw_data)

C23_NoMetaKeyLost ==
    [][\A key \in DOMAIN NoMeta :
          jobMeta[key] # NoMeta[key] => jobMeta'[key] # NoMeta[key]]_vars

\* The callers whose refresh request is in flight.
InFlight == {c \in Callers : refreshCalls[c].pc = "post"}

\* No refresh is being made or stored.
RefreshesDone == \A c \in Callers : refreshCalls[c].pc \notin {"post", "save"}

\* C24: the token refreshes of a user are serialized: never two refresh
\* requests in flight at once, and once the refreshes are done the stored
\* access token is the one of the latest grant.
C24_RefreshesSerialized ==
    /\ Cardinality(InFlight) <= 1
    /\ RefreshesDone /\ tokensIssued > 0 => qboUser.qbo_access_token = tokensIssued

\* A step of the worker that saves a status: every step that moves the
\* worker on, but for get_qbo_client and the closing of the connections.
StatusSaved == wpc' # wpc /\ wpc \notin {"get_client", "close"}

\* C25: every status the worker saves (parsing, validating, importing,
\* completed, partial_success, error) is broadcast, before the next change
\* and the end of the run, with the tallies and the metadata.
C25_StatusChangeIsBroadcast ==
    [][StatusSaved =>
         lastBroadcast' = [status |-> jobStatus',
                           progress |-> Tallies(jobRows'),
                           meta |-> jobMeta']]_vars

\* The number of JobRows of a status in the row store.
RowCount(rows, status) == Len(SelectSeq(rows, LAMBDA row : row.status = status))

\* C26: the tallies of every broadcast are the counts of the JobRows in the
\* row store at the moment of the broadcast, the row changes the worker made
\* before it included.
C26_TalliesAreRowCounts ==
    [][lastBroadcast' # lastBroadcast =>
         /\ lastBroadcast'.progress.total = Len(jobRows')
         /\ lastBroadcast'.progress.valid = RowCount(jobRows', "valid")
         /\ lastBroadcast'.progress.error = RowCount(jobRows', "error")
         /\ lastBroadcast'.progress.success = RowCount(jobRows', "success")]_vars

\* A broadcast was made after a batch in which rows succeeded and failed,
\* with rows of the next batch still valid.
C26_Witness ==
    /\ wpc = "import"
    /\ lastBroadcast.status = "importing"
    /\ lastBroadcast.progress.success > 0
    /\ lastBroadcast.progress.error > 0
    /\ lastBroadcast.progress.valid > 0

\* The call of broadcast returns.
BroadcastReturns == broadcastCall.pc = "loop" /\ broadcastCall'.pc = "idle"

\* The connection was sent the message.
WasSent(sent, message) == \E k \in DOMAIN sent : sent[k].message = message

\* C27: a broadcast never raises and changes no job or row state; when it
\* returns, every subscriber the job had was sent the message or, its send
\* having failed, is removed; no connection is sent a message of another job.
C27_BroadcastNeverRaises ==
    [][/\ broadcastCall'.pc # "raised"
       /\ broadcastCall' # broadcastCall => UNCHANGED <<jobStatus, jobMeta, jobRows>>
       /\ \A ws \in Sockets : \A k \in DOMAIN received'[ws] :
             received'[ws][k].job_id = SocketJob(ws)
       /\ BroadcastReturns =>
             \A ws \in broadcastCall.subs :
                \/ WasSent(received'[ws], broadcastCall.message)
                \/ broadcastCall.job_id \notin DOMAIN active_connections'
                \/ ws \notin active_connections'[broadcastCall.job_id]]_vars

\* C28: a row that a response item reported as created is stored with status
\* success and with the Id and the SyncToken the provider assigned.
C28_SuccessRowHoldsProviderId ==
    \A id \in DOMAIN jobRows :
        jobRows[id].status = "success" =>
            /\ "meta" \in DOMAIN jobRows[id]
            /\ jobRows[id].meta.qbo_id = Item(id, "Customer").Id

\* What the claim expects of a cell: "" when the key is missing or the cell
\* is null, else the cell without the blanks around it.
ExpectedCell(row, h) ==
    IF h \notin DOMAIN row THEN ""
    ELSE IF row[h] = NullCell THEN ""
    ELSE Strip(row[h])

ExpectedRows(edited_rows) ==
    [k \in DOMAIN edited_rows |->
        [h \in Headers |-> ExpectedCell(edited_rows[k], h)]]

\* The worker parses the CSV text of its task and creates the JobRows.
ParseStep == wpc = "parse" /\ wpc' = "validate"

\* C29: a start with edited rows stores and queues a CSV text that reads as
\* one record per edited row, in order, with the stringified and stripped
\* cell per stored header ("" when missing or null), and without edited
\* rows leaves the text as it is; the mapping is stored and the status is
\* queued; the worker's parse of the task's text yields these records.
C29_EditedRowsRoundTrip ==
    [][/\ \A mapping \in Mappings, edited_rows \in StartEdits :
            /\ nStarts' # nStarts
            /\ httpStatus' = 200
            /\ start_import_with_mapping(mapping, edited_rows)
            =>
                /\ jobMeta'.csv_content = IF edited_rows # <<>>
                                          THEN ExpectedRows(edited_rows)
                                          ELSE jobMeta.csv_content
                /\ Last(celeryQueue').csv_content = jobMeta'.csv_content
                /\ jobMeta'.mapping = mapping
                /\ jobStatus' = "queued"
       /\ ParseStep =>
            /\ Len(jobRows') = Len(jobRows) + Len(wtask.csv_content)
            /\ \A k \in DOMAIN wtask.csv_content :
                  jobRows'[Len(jobRows) + k].raw_data = wtask.csv_content[k]]_vars

\* The worker has parsed the text of a start with two edited rows: a padded
\* one, now stripped, and one with a blank and a null cell, now all empty.
C29_Witness ==
    /\ wpc = "validate"
    /\ Len(jobRows) = 2
    /\ jobRows[1].raw_data = RowOk
    /\ jobRows[2].raw_data = [Name |-> "", Email |-> ""]

\* The dry-run result numbers its rows from 2: the k-th row result and each
\* of its issues carry k + 1, and every issue of the summary carries the
\* number of a row or none.
DryRowsNumbered(result) ==
    /\ \A k \in DOMAIN result.row_details :
          /\ result.row_details[k].row_number = k + 1
          /\ \A p \in DOMAIN result.row_details[k].issues :
                result.row_details[k].issues[p].row = k + 1
    /\ \A p \in DOMAIN result.summary.issues :
          result.summary.issues[p].row \in {0} \cup (2..(Len(result.row_details) + 1))

\* The k-th row result is the one of the k-th data row: it has a validation
\* issue exactly when that row fails validation.
DryRowsInOrder(mapping, rows, result) ==
    /\ Len(result.row_details) = Len(rows)
    /\ \A k \in DOMAIN rows :
          FailsValidation(mapping, rows[k]) <=>
             \E p \in DOMAIN result.row_details[k].issues :
                result.row_details[k].issues[p].code \in {"value_error", "missing"}

\* C30: the k-th data row of the CSV (k from 1) has row number k + 1 in the
\* JobRows the worker creates and in the row results and issues of a dry
\* run.
C30_RowNumbersFromTwo ==
    [][/\ ParseStep =>
            \A k \in DOMAIN wtask.csv_content :
               /\ jobRows'[Len(jobRows) + k].row_number = k + 1
               /\ jobRows'[Len(jobRows) + k].raw_data = wtask.csv_content[k]
       /\ DryRunStep => DryRowsNumbered(jobMeta'.last_dry_run)
       /\ DryRunEnds =>
            DryRowsInOrder(dreq.mapping, dreq.rows, jobMeta'.last_dry_run)]_vars

\* The worker has created the rows of a two-row CSV in a retry of the task:
\* the second data row has row number 3 in both runs.
C30_Witness ==
    /\ wpc = "validate"
    /\ wtask.retries = 1
    /\ Len(jobRows) = 4
    /\ jobRows[2].raw_data = RowBadEmail /\ jobRows[2].row_number = 3
    /\ jobRows[4].raw_data = RowBadEmail /\ jobRows[4].row_number = 3
    /\ jobRows[3].raw_data = RowOk /\ jobRows[3].row_number = 2

\* The targets normalize_to_canonical has a branch for (lines 47-83).
NormalizerTargets ==
    {"DisplayName", "PrimaryEmailAddr.Address", "PrimaryPhone.FreeFormNumber",
     "Mobile.FreeFormNumber", "Fax.FreeFormNumber", "AlternatePhone.FreeFormNumber",
     "WebAddr.URI", "PrintOnCheckName", "Taxable", "Active", "Job",
     "BillWithParent", "CompanyName", "Title", "GivenName", "MiddleName",
     "FamilyName", "Suffix", "Notes", "ParentRef", "CurrencyRef"}

\* The columns of a row that are mapped to an unrecognized target and hold a
\* value.
PassedThrough(mapping, raw_data) ==
    {h \in DOMAIN mapping : /\ mapping[h] \notin NormalizerTargets
                            /\ Strip(raw_data[h]) # ""}

\* C31: the value of a column mapped to a target the normalizer does not
\* recognize is kept under that target in the normalizer's output and in the
\* payload of the validated row.
C31_UnknownTargetPassedThrough ==
    \A id \in DOMAIN jobRows :
        jobRows[id].status \in {"valid", "success"} =>
            \A h \in PassedThrough(jobMeta.mapping, jobRows[id].raw_data) :
                LET target == jobMeta.mapping[h]
                    value == Strip(jobRows[id].raw_data[h])
                    data == normalize_to_canonical(jobMeta.mapping,
                                                   jobRows[id].raw_data).data
                IN  /\ target \in DOMAIN data
                    /\ data[target] = value
                    /\ target \in DOMAIN jobRows[id].payload
                    /\ jobRows[id].payload[target] = value

\* The rows that the handling of the batch answer saves with status success
\* (line 237), before anything the handling does afterwards.
SavedAsSuccess(batch, resp) ==
    IF resp.kind = "ok"
    THEN {id \in RangeOf(batch) :
            ApplyItems(resp.items, batch, jobRows, success_count).rows[id].status
                = "success"}
    ELSE {}

\* C32: once a JobRow has status success, no later step changes its status:
\* a row that is success before a step is success after it, and a row that
\* the handling of a batch answer saved as success is success when the
\* handling of that answer ends.
C32_SuccessIsFinal ==
    [][/\ \A id \in DOMAIN jobRows :
              jobRows[id].status = "success" =>
                  /\ id \in DOMAIN jobRows'
                  /\ jobRows'[id].status = "success"
       /\ requests' # requests =>
              \A resp \in {lastResp'} :
                  \A id \in SavedAsSuccess(CurrentBatch, resp) :
                      jobRows'[id].status = "success"]_vars

\* C33: over all executions of the task for one job, a batch request never
\* holds a row whose customer the provider has already created.
C33_CreatedRowNeverResent ==
    [][requests' # requests => RangeOf(CurrentBatch) \cap created = {}]_vars

\* The start requests that passed the status check and queued a task.
Accepted == {r \in StartRequests : startCalls[r].pc = "accepted"}

\* C34: of two concurrent start requests for one job at most one passes the
\* status check and queues a task.
C34_AtMostOneStartAccepted ==
    /\ Cardinality(Accepted) <= 1
    /\ Len(celeryQueue) <= 1

\* The run has selected the valid rows and there is none.
NoRowValid == wpc \in {"import", "close"} /\ valid_rows = <<>>

\* C35: when no row passes validation the worker sends no batch request and
\* the job ends completed with success_count 0 and failed_count 0, although
\* every row has status error.
C35_NoValidRowEndsCompleted ==
    NoRowValid =>
        /\ requests = <<>>
        /\ \A id \in DOMAIN jobRows : jobRows[id].status = "error"
        /\ wpc = "close" =>
              /\ jobStatus = "completed"
              /\ jobMeta.success_count = 0
              /\ jobMeta.failed_count = 0

C35_Witness ==
    /\ wpc = "close"
    /\ valid_rows = <<>>
    /\ Len(jobRows) = 2
    /\ \A id \in DOMAIN jobRows : jobRows[id].status = "error"
    /\ jobStatus = "completed"
    /\ jobMeta.failed_count = 0

\* The rows of the stored dry run that have status valid.
ValidDetails(d) == {k \in DOMAIN d.row_details : d.row_details[k].status = "valid"}

\* C36: after every dry run total_rows = will_succeed + will_fail,
\* will_succeed is the number of rows with status valid, and the job is
\* dry_run_complete exactly when will_fail = 0 and dry_run_failed otherwise,
\* whatever the number of warnings.
C36_DryRunSummaryConsistent ==
    LET d == jobMeta.last_dry_run
    IN  d # NoDryRun =>
            /\ d.summary.total_rows = d.summary.will_succeed + d.summary.will_fail
            /\ d.summary.total_rows = Len(d.row_details)
            /\ d.summary.will_succeed = Cardinality(ValidDetails(d))
            /\ d.summary.will_fail >= 0
            /\ jobStatus = IF d.summary.will_fail = 0
                           THEN "dry_run_complete" ELSE "dry_run_failed"

C36_Witness ==
    /\ jobMeta.last_dry_run # NoDryRun
    /\ jobMeta.last_dry_run.summary.warnings > 0
    /\ jobMeta.last_dry_run.summary.will_fail = 0
    /\ jobMeta.last_dry_run.summary.total_rows > 1
    /\ jobStatus = "dry_run_complete"

\* The callbacks that passed the state check with the given state.
PassedWith(state) ==
    {r \in CallbackRequests :
        /\ callbackCalls[r].state = state
        /\ callbackCalls[r].pc \in {"passed", "deleted", "stored", "failed"}}

\* The callbacks that saved tokens after passing the check with the state.
StoredWith(state) ==
    {r \in CallbackRequests :
        callbackCalls[r].state = state /\ callbackCalls[r].pc = "stored"}

\* C37: an OAuth state is accepted by at most one callback: of the callbacks
\* that carry the same state at most one passes the state check and at most
\* one saves tokens.
C37_StateAcceptedOnce ==
    \A state \in 1..MaxLogins :
        /\ Cardinality(PassedWith(state)) <= 1
        /\ Cardinality(StoredWith(state)) <= 1

====
